---- MODULE Spec2Model ----
(***************************************************************************)
(* Model of the scenario domain engine: the Scenario aggregate, the policy *)
(* predicates, the audit service and the weights / scoring services.       *)
(*                                                                         *)
(* A Python str is modelled by the record [ch, n] standing for ch * n, so  *)
(* that len() is computed and the 500 character limit is a real number.    *)
(* An Optional value is modelled by a sequence of length 0 (None) or 1.    *)
(* A raised exception leaves the caller with the scenario it passed in;    *)
(* `call` records the operation, its arguments and how it ended, and       *)
(* `prev` is the scenario the call was given.                              *)
(***************************************************************************)
EXTENDS Integers, Sequences, FiniteSets, TLC

VARIABLES scenario, prev, call, clock, files, lastSaved, saving

vars == <<scenario, prev, call, clock, files, lastSaved, saving>>

(* ------------------------------ bounds -------------------------------- *)

MaxAudit == 2
MaxAuditW == 3
MaxAuditS == 2
MaxScores == 2
MaxClock == 1

(* --------------------------- Python values ---------------------------- *)

None == <<>>

Some(v) == <<v>>

Str(c, k) == [ch |-> c, n |-> k]

PyLen(s) == s.n

Truthy(s) == s.n > 0

EmptyDetails == [k \in {} |-> 0]

(* ---------------------------- input domains --------------------------- *)

Actors == {"user", "admin"}

Reasons == {"typo", "review"}

(* "c2" is a criterion of the first choice of criteria only, "optX" is never an option *)
InCriterionIds == {"c1", "c2"}

InOptionIds == {"opt1", "optX"}

InWeights == {-1, 0, 3}

InRaws == {0, 4, 6}

MaxRationaleLen == 500

InScoreRationales == {None, Some(Str("a", 2)), Some(Str("c", MaxRationaleLen + 1))}

(* scenario ids: two that name files, and one for each way of being refused *)
InIds ==
    { <<"a">>, <<"a", "\n">>,
      <<>>, <<" ", "\t">>, <<"a", ".", ".">>, <<".", ".", "/", "e">>, <<"a", "\\", "b">>,
      <<"a", ".", "b">> }

(* two ids, the first of them followed by "_" begins the second *)
BackupIds == { <<"a">>, <<"a", "_", "b">> }

InKeepCounts == 0..2

InRationales == {Str("b", MaxRationaleLen), Str("b", MaxRationaleLen + 1)}

(* ------------------------------- models ------------------------------- *)

Criterion(i, nm, w) ==
    [id |-> i, name |-> nm, weight |-> w,
     anchors |-> [hi |-> "high", lo |-> "low"], active |-> TRUE]

Option(i, nm) == [id |-> i, name |-> nm, notes |-> None]

Score(o, c, r, rat) == [optionId |-> o, criterionId |-> c, raw |-> r, rationale |-> rat]

AuditEvent(t, a, ty, d) == [ts |-> t, actor |-> a, type |-> ty, details |-> d]

Settings ==
    [rationalePolicy |-> "optional", flowDefault |-> "by_criterion", sensitivityStep |-> 1]

CriteriaChoices ==
    { <<Criterion("c1", "Relevance", 2), Criterion("c2", "Burden", 1)>>,
      <<Criterion("c1", "Relevance", 1), Criterion("c1", "Relevance bis", 2)>> }

create(criteria) ==
    [id |-> <<"5", "c", "-", "e">>, title |-> "Trial", createdAt |-> 0, modifiedAt |-> 0,
     weightsLocked |-> FALSE,
     criteria |-> criteria,
     options |-> <<Option("opt1", "A"), Option("opt2", "B")>>,
     scores |-> <<>>,
     settings |-> Settings,
     audit |-> <<>>]

(* ------------------------------ policies ------------------------------ *)

can_lock_weights_always(s) == TRUE

can_lock_weights(s) == ~s.weightsLocked

can_unlock_weights(s) == s.weightsLocked

(* ---------------------------- audit service --------------------------- *)

log_event_first(s, actor, event_type, details, now) ==
    [s EXCEPT !.audit = <<AuditEvent(now, actor, event_type, details)>> \o s.audit]

log_event(s, actor, event_type, details, now) ==
    [s EXCEPT !.audit = s.audit \o <<AuditEvent(now, actor, event_type, details)>>]

log_score_change_without_old(s, actor, option_id, criterion_id, old_value, new_value, now) ==
    log_event(s, actor, "score_changed",
              [optionId |-> option_id, criterionId |-> criterion_id,
               oldValue |-> None, newValue |-> new_value], now)

log_score_change(s, actor, option_id, criterion_id, old_value, new_value, now) ==
    log_event(s, actor, "score_changed",
              [optionId |-> option_id, criterionId |-> criterion_id,
               oldValue |-> old_value, newValue |-> new_value], now)

log_weight_change_swapped(s, actor, criterion_id, old_weight, new_weight, reason, now) ==
    log_event(s, actor, "weight_changed",
              [criterionId |-> criterion_id, oldWeight |-> new_weight,
               newWeight |-> old_weight, reason |-> reason], now)

log_weight_change(s, actor, criterion_id, old_weight, new_weight, reason, now) ==
    log_event(s, actor, "weight_changed",
              [criterionId |-> criterion_id, oldWeight |-> old_weight,
               newWeight |-> new_weight, reason |-> reason], now)

log_weights_locked(s, actor, now) ==
    log_event(s, actor, "weights_locked", EmptyDetails, now)

log_weights_unlocked_no_reason(s, actor, reason, now) ==
    log_event(s, actor, "weights_unlocked", EmptyDetails, now)

log_weights_unlocked(s, actor, reason, now) ==
    log_event(s, actor, "weights_unlocked", [reason |-> reason], now)

(* --------------------------- results of calls ------------------------- *)

Ok(s) == [result |-> "ok", scenario |-> s]

Raise(err, s) == [result |-> err, scenario |-> s]

(* index of the first TRUE of a sequence of booleans, or 0: a for loop with break *)
FirstIndex(hits) ==
    IF \E i \in 1..Len(hits) : hits[i]
    THEN CHOOSE i \in 1..Len(hits) : hits[i] /\ \A j \in 1..(i - 1) : ~hits[j]
    ELSE 0

criterion_index_of(s, criterion_id) ==
    FirstIndex([i \in 1..Len(s.criteria) |-> s.criteria[i].id = criterion_id])

score_index_never(s, option_id, criterion_id) == 0

score_index_of(s, option_id, criterion_id) ==
    FirstIndex([i \in 1..Len(s.scores) |->
                   s.scores[i].optionId = option_id /\ s.scores[i].criterionId = criterion_id])

(* --------------------------- weights service -------------------------- *)

negative_weight_or_zero(weight) == weight <= 0

negative_weight_never(weight) == FALSE

negative_weight(weight) == weight < 0

lock_weights_unlogged(s, actor, now) ==
    IF ~can_lock_weights(s) THEN Raise("StateError", s)
    ELSE Ok([s EXCEPT !.weightsLocked = TRUE])

lock_weights(s, actor, now) ==
    IF ~can_lock_weights(s) THEN Raise("StateError", s)
    ELSE Ok(log_weights_locked([s EXCEPT !.weightsLocked = TRUE], actor, now))

unlock_weights(s, actor, reason, now) ==
    IF ~can_unlock_weights(s) THEN Raise("StateError", s)
    ELSE Ok(log_weights_unlocked([s EXCEPT !.weightsLocked = FALSE], actor, reason, now))

set_weight_validates_first(s, criterion_id, weight, actor, reason, now) ==
    IF weight < 0 THEN Raise("ValidationError", s)
    ELSE IF s.weightsLocked THEN Raise("LockedError", s)
    ELSE LET criterion_index == criterion_index_of(s, criterion_id)
         IN  IF criterion_index = 0 THEN Raise("NotFoundError", s)
             ELSE LET old_criterion == s.criteria[criterion_index]
                      new_criteria == [s.criteria EXCEPT
                                          ![criterion_index] = [old_criterion EXCEPT !.weight = weight]]
                  IN  Ok(log_weight_change([s EXCEPT !.criteria = new_criteria], actor,
                                           criterion_id, old_criterion.weight, weight, reason, now))

set_weight(s, criterion_id, weight, actor, reason, now) ==
    IF s.weightsLocked THEN Raise("LockedError", s)
    ELSE IF negative_weight(weight) THEN Raise("ValidationError", s)
    ELSE LET criterion_index == criterion_index_of(s, criterion_id)
         IN  IF criterion_index = 0 THEN Raise("NotFoundError", s)
             ELSE LET old_criterion == s.criteria[criterion_index]
                      old_weight == old_criterion.weight
                      updated_criterion == [old_criterion EXCEPT !.weight = weight]
                      new_criteria == [s.criteria EXCEPT ![criterion_index] = updated_criterion]
                      updated == [s EXCEPT !.criteria = new_criteria]
                  IN  Ok(log_weight_change(updated, actor, criterion_id,
                                           old_weight, weight, reason, now))

(* --------------------------- scoring service -------------------------- *)

raw_at_most_five(raw) == raw <= 5

raw_at_least_one(raw) == 1 <= raw

raw_in_range(raw) == 1 <= raw /\ raw <= 5

new_rationale_as_given(rationale, existing_score) == rationale

(* the rationale of the Score set_score builds: the one supplied, else the previous one *)
new_rationale(rationale, existing_score) ==
    IF rationale # None THEN rationale
    ELSE IF existing_score # None THEN existing_score[1].rationale
    ELSE None

set_score_unless_locked(s, option_id, criterion_id, raw, actor, rationale, now) ==
    IF s.weightsLocked THEN Raise("LockedError", s)
    ELSE IF ~raw_in_range(raw) THEN Raise("ValidationError", s)
    ELSE IF ~\E i \in 1..Len(s.options) : s.options[i].id = option_id
         THEN Raise("NotFoundError", s)
    ELSE IF ~\E i \in 1..Len(s.criteria) : s.criteria[i].id = criterion_id
         THEN Raise("NotFoundError", s)
    ELSE LET score_index == score_index_of(s, option_id, criterion_id)
             old_value == IF score_index # 0 THEN Some(s.scores[score_index].raw) ELSE None
             existing_score == IF score_index # 0 THEN Some(s.scores[score_index]) ELSE None
             new_score == Score(option_id, criterion_id, raw,
                                new_rationale(rationale, existing_score))
             new_scores == IF score_index # 0
                           THEN [s.scores EXCEPT ![score_index] = new_score]
                           ELSE Append(s.scores, new_score)
             updated == [s EXCEPT !.scores = new_scores]
         IN  Ok(log_score_change(updated, actor, option_id, criterion_id,
                                 old_value, raw, now))

set_score(s, option_id, criterion_id, raw, actor, rationale, now) ==
    IF ~raw_in_range(raw) THEN Raise("ValidationError", s)
    ELSE IF ~\E i \in 1..Len(s.options) : s.options[i].id = option_id
         THEN Raise("NotFoundError", s)
    ELSE IF ~\E i \in 1..Len(s.criteria) : s.criteria[i].id = criterion_id
         THEN Raise("NotFoundError", s)
    ELSE LET score_index == score_index_of(s, option_id, criterion_id)
             old_value == IF score_index # 0 THEN Some(s.scores[score_index].raw) ELSE None
             existing_score == IF score_index # 0 THEN Some(s.scores[score_index]) ELSE None
             new_score == Score(option_id, criterion_id, raw,
                                new_rationale(rationale, existing_score))
             new_scores == IF score_index # 0
                           THEN [s.scores EXCEPT ![score_index] = new_score]
                           ELSE Append(s.scores, new_score)
             updated == [s EXCEPT !.scores = new_scores]
         IN  Ok(log_score_change(updated, actor, option_id, criterion_id,
                                 old_value, raw, now))

rationale_too_long_from_limit(rationale) ==
    Truthy(rationale) /\ PyLen(rationale) >= MaxRationaleLen

rationale_too_long(rationale) == Truthy(rationale) /\ PyLen(rationale) > MaxRationaleLen

set_rationale_resets_raw(s, option_id, criterion_id, rationale, actor) ==
    IF rationale_too_long(rationale) THEN Raise("ValidationError", s)
    ELSE LET score_index == score_index_of(s, option_id, criterion_id)
             new_score == Score(option_id, criterion_id, 3, Some(rationale))
         IN  Ok([s EXCEPT !.scores = IF score_index = 0 THEN s.scores \o <<new_score>>
                                     ELSE [s.scores EXCEPT ![score_index] = new_score]])

set_rationale(s, option_id, criterion_id, rationale, actor) ==
    IF rationale_too_long(rationale)
    THEN Raise("ValidationError", s)
    ELSE LET score_index == score_index_of(s, option_id, criterion_id)
             new_scores ==
                 IF score_index = 0
                 THEN s.scores \o <<Score(option_id, criterion_id, 3, Some(rationale))>>
                 ELSE [s.scores EXCEPT ![score_index] =
                          [s.scores[score_index] EXCEPT !.rationale = Some(rationale)]]
         IN  Ok([s EXCEPT !.scores = new_scores])

(* ------------------------ objects and references --------------------- *)

(* The heap is a sequence of objects and a reference is an index into it. *)
(* A Scenario object holds references to its criteria, scores and audit   *)
(* lists; a service call works on the heap and returns a reference.       *)
new_object(heap, object) == [heap |-> Append(heap, object), ref |-> Len(heap) + 1]

list_alias(heap, ref) == [heap |-> heap, ref |-> ref]

(* list(a_list) *)
list_copy(heap, ref) == new_object(heap, heap[ref])

(* a_list + [item] *)
list_plus(heap, ref, item) == new_object(heap, Append(heap[ref], item))

(* a_list[index] = item, index counted from 1 *)
list_set(heap, ref, index, item) == [heap EXCEPT ![ref] = [@ EXCEPT ![index] = item]]

(* a_list.append(item) *)
list_append(heap, ref, item) == [heap EXCEPT ![ref] = Append(@, item)]

(* scenario.model_copy(update={field: a list}) *)
model_copy_criteria(heap, ref, list_ref) ==
    new_object(heap, [heap[ref] EXCEPT !.criteria = list_ref])

model_copy_scores(heap, ref, list_ref) ==
    new_object(heap, [heap[ref] EXCEPT !.scores = list_ref])

model_copy_audit(heap, ref, list_ref) ==
    new_object(heap, [heap[ref] EXCEPT !.audit = list_ref])

(* a scenario as the caller holds it: three lists and the Scenario object *)
HeldRef == 4

on_heap(s) ==
    <<s.criteria, s.scores, s.audit, [s EXCEPT !.criteria = 1, !.scores = 2, !.audit = 3]>>

(* the scenario seen through a reference *)
observe(heap, ref) ==
    [heap[ref] EXCEPT !.criteria = heap[heap[ref].criteria],
                      !.scores = heap[heap[ref].scores],
                      !.audit = heap[heap[ref].audit]]

Raised(err, heap) == [result |-> err, heap |-> heap, ref |-> 0]

Returned(made) == [result |-> "ok", heap |-> made.heap, ref |-> made.ref]

(* AuditService.log_event on the heap, with the event the service builds *)
heap_log_event(heap, ref, event) ==
    LET new_audit == list_plus(heap, heap[ref].audit, event)
    IN  model_copy_audit(new_audit.heap, ref, new_audit.ref)

heap_set_weight(heap, ref, criterion_id, weight, actor, reason, now) ==
    LET s == observe(heap, ref)
        criterion_index == criterion_index_of(s, criterion_id)
    IN  IF s.weightsLocked THEN Raised("LockedError", heap)
        ELSE IF negative_weight(weight) THEN Raised("ValidationError", heap)
        ELSE IF criterion_index = 0 THEN Raised("NotFoundError", heap)
        ELSE LET old_criterion == s.criteria[criterion_index]
                 old_weight == old_criterion.weight
                 updated_criterion == [old_criterion EXCEPT !.weight = weight]
                 new_criteria == list_copy(heap, heap[ref].criteria)
                 assigned == list_set(new_criteria.heap, new_criteria.ref,
                                      criterion_index, updated_criterion)
                 updated == model_copy_criteria(assigned, ref, new_criteria.ref)
                 logged == log_weight_change(observe(updated.heap, updated.ref), actor,
                                             criterion_id, old_weight, weight, reason, now)
             IN  Returned(heap_log_event(updated.heap, updated.ref,
                                         logged.audit[Len(logged.audit)]))

heap_set_score(heap, ref, option_id, criterion_id, raw, actor, rationale, now) ==
    LET s == observe(heap, ref)
    IN  IF ~raw_in_range(raw) THEN Raised("ValidationError", heap)
        ELSE IF ~\E i \in 1..Len(s.options) : s.options[i].id = option_id
             THEN Raised("NotFoundError", heap)
        ELSE IF ~\E i \in 1..Len(s.criteria) : s.criteria[i].id = criterion_id
             THEN Raised("NotFoundError", heap)
        ELSE LET score_index == score_index_of(s, option_id, criterion_id)
                 old_value == IF score_index # 0 THEN Some(s.scores[score_index].raw)
                              ELSE None
                 existing_score == IF score_index # 0 THEN Some(s.scores[score_index])
                                   ELSE None
                 new_score == Score(option_id, criterion_id, raw,
                                    new_rationale(rationale, existing_score))
                 new_scores == list_copy(heap, heap[ref].scores)
                 changed == IF score_index # 0
                            THEN list_set(new_scores.heap, new_scores.ref, score_index,
                                          new_score)
                            ELSE list_append(new_scores.heap, new_scores.ref, new_score)
                 updated == model_copy_scores(changed, ref, new_scores.ref)
                 logged == log_score_change(observe(updated.heap, updated.ref), actor,
                                            option_id, criterion_id, old_value, raw, now)
             IN  Returned(heap_log_event(updated.heap, updated.ref,
                                         logged.audit[Len(logged.audit)]))

(* ------------------------------- numbers ------------------------------ *)

RECURSIVE gcd(_, _)
gcd(a, b) == IF b = 0 THEN a ELSE gcd(b, a % b)

(* the quotient of two integers, b > 0, as a fraction in lowest terms *)
divide(a, b) == [num |-> a \div gcd(a, b), den |-> b \div gcd(a, b)]

times(x, k) == divide(x.num * k, x.den)

Zero == divide(0, 1)

(* ---------------------------- totals of options ----------------------- *)

(* weights.get(criterion_id, default) on {c.id: c.weight for c in criteria}: *)
(* a later criterion with the same id replaces an earlier one               *)
RECURSIVE weights_get(_, _, _)
weights_get(criteria, criterion_id, default) ==
    IF criteria = <<>> THEN default
    ELSE LET last == criteria[Len(criteria)]
         IN  IF last.id = criterion_id THEN last.weight
             ELSE weights_get(SubSeq(criteria, 1, Len(criteria) - 1), criterion_id, default)

(* sum(c.weight * 5 for c in scenario.criteria) *)
RECURSIVE max_possible(_)
max_possible(criteria) ==
    IF criteria = <<>> THEN 0
    ELSE Head(criteria).weight * 5 + max_possible(Tail(criteria))

(* the inner loop of totals: the weighted raws of the scores of one option *)
RECURSIVE option_total(_, _, _)
option_total(scores, criteria, option_id) ==
    IF scores = <<>> THEN 0
    ELSE (IF Head(scores).optionId = option_id
          THEN Head(scores).raw * weights_get(criteria, Head(scores).criterionId, 0)
          ELSE 0)
         + option_total(Tail(scores), criteria, option_id)

normalized_of_total(option_total_, max_possible_) ==
    IF max_possible_ > 0 THEN divide(option_total_, max_possible_) ELSE Zero

normalized_of(option_total_, max_possible_) ==
    IF max_possible_ > 0 THEN times(divide(option_total_, max_possible_), 100) ELSE Zero

OptionIds(s) == {s.options[i].id : i \in 1..Len(s.options)}

(* ScoringService.totals: a dict from option id to total and normalized *)
totals(s) ==
    [option_id \in OptionIds(s) |->
        LET total == option_total(s.scores, s.criteria, option_id)
        IN  [total |-> total, normalized |-> normalized_of(total, max_possible(s.criteria))]]

(* AnalysisService._calculate_totals, the same computation *)
calculate_totals(s) ==
    [option_id \in OptionIds(s) |->
        LET total == option_total(s.scores, s.criteria, option_id)
        IN  [total |-> total, normalized |-> normalized_of(total, max_possible(s.criteria))]]

(* --------------------------- analysis service ------------------------- *)

(* list.sort(key=total, reverse=True) is stable: an entry goes after the *)
(* entries before it whose total is not smaller                          *)
RECURSIVE insert_sorted(_, _)
insert_sorted(sorted, entry) ==
    IF sorted = <<>> THEN <<entry>>
    ELSE IF Head(sorted).total >= entry.total
         THEN <<Head(sorted)>> \o insert_sorted(Tail(sorted), entry)
         ELSE <<entry>> \o sorted

RECURSIVE sort_by_total(_)
sort_by_total(entries) ==
    IF entries = <<>> THEN <<>>
    ELSE insert_sorted(sort_by_total(SubSeq(entries, 1, Len(entries) - 1)),
                       entries[Len(entries)])

rank_dense(sorted, i) == Cardinality({sorted[j].total : j \in 1..i})

(* the rank the loop gives the entry at position i *)
RECURSIVE rank_at(_, _)
rank_at(sorted, i) ==
    IF i = 1 THEN 1
    ELSE IF sorted[i].total < sorted[i - 1].total THEN i
    ELSE rank_at(sorted, i - 1)

leaderboard(s) ==
    LET all == calculate_totals(s)
        entries == [i \in 1..Len(s.options) |->
                       [optionId |-> s.options[i].id, name |-> s.options[i].name,
                        total |-> all[s.options[i].id].total,
                        normalized |-> all[s.options[i].id].normalized]]
        sorted == sort_by_total(entries)
    IN  [i \in 1..Len(sorted) |->
            [optionId |-> sorted[i].optionId, name |-> sorted[i].name,
             total |-> sorted[i].total, normalized |-> sorted[i].normalized,
             rank |-> rank_at(sorted, i)]]

(* the scores of one option, in the order of scenario.scores *)
scores_of(scores, option_id) == SelectSeq(scores, LAMBDA sc : sc.optionId = option_id)

CriterionIdsOf(scores) == {scores[i].criterionId : i \in 1..Len(scores)}

(* contributions_map[criterion_id] after the loop: the last score written *)
RECURSIVE last_weighted(_, _, _)
last_weighted(scores, criteria, criterion_id) ==
    LET last == scores[Len(scores)]
    IN  IF last.criterionId = criterion_id
        THEN last.raw * weights_get(criteria, criterion_id, 0)
        ELSE last_weighted(SubSeq(scores, 1, Len(scores) - 1), criteria, criterion_id)

requested_every_option(s, option_ids) == OptionIds(s)

(* the keys the loop over option_ids writes *)
requested(s, option_ids) == {option_ids[i] : i \in 1..Len(option_ids)}

(* the dict contributions returns: the key "criteria" and one key for each *)
(* requested option id, here as two fields                                 *)
contributions(s, option_ids) ==
    [criteria |-> [criterion_id \in {s.criteria[i].id : i \in 1..Len(s.criteria)} |->
                      [name |-> s.criteria[CHOOSE i \in 1..Len(s.criteria) :
                                    /\ s.criteria[i].id = criterion_id
                                    /\ \A j \in (i + 1)..Len(s.criteria) :
                                          s.criteria[j].id # criterion_id].name,
                       weight |-> weights_get(s.criteria, criterion_id, 0)]],
     options |-> [option_id \in requested(s, option_ids) |->
                     [by_criterion |->
                          [criterion_id \in CriterionIdsOf(scores_of(s.scores, option_id)) |->
                              last_weighted(scores_of(s.scores, option_id), s.criteria,
                                            criterion_id)],
                      total |-> option_total(s.scores, s.criteria, option_id)]]]

(* the loop that finds the winner: state [winner_id, max_total] after the *)
(* first i options                                                        *)
RECURSIVE find_winner_last(_, _, _)
find_winner_last(options, all, i) ==
    IF i = 0 THEN [winner_id |-> None, max_total |-> -1]
    ELSE LET sofar == find_winner_last(options, all, i - 1)
             option_total_ == all[options[i].id].total
         IN  IF option_total_ >= sofar.max_total
             THEN [winner_id |-> Some(options[i].id), max_total |-> option_total_]
             ELSE sofar

RECURSIVE find_winner(_, _, _)
find_winner(options, all, i) ==
    IF i = 0 THEN [winner_id |-> None, max_total |-> -1]
    ELSE LET sofar == find_winner(options, all, i - 1)
             option_total_ == all[options[i].id].total
         IN  IF option_total_ > sofar.max_total
             THEN [winner_id |-> Some(options[i].id), max_total |-> option_total_]
             ELSE sofar

delta_from_total(max_total, option_total_) == option_total_ - max_total

delta_of(max_total, option_total_) == max_total - option_total_

(* the dict delta_to_winner returns: the key "winner" and one key for each *)
(* option id, here as two fields                                           *)
delta_to_winner(s) ==
    LET all == calculate_totals(s)
        found == find_winner(s.options, all, Len(s.options))
        winner == IF found.winner_id = None /\ s.options # <<>>
                  THEN [winner_id |-> Some(s.options[1].id), max_total |-> 0]
                  ELSE found
    IN  [winner |-> winner.winner_id,
         options |-> [option_id \in OptionIds(s) |->
                         [total |-> all[option_id].total,
                          delta |-> delta_of(winner.max_total, all[option_id].total)]]]

Max(a, b) == IF a >= b THEN a ELSE b

(* original_weight + original_weight * (pct / 100.0), not below 0 *)
adjusted_weight_of(original_weight, pct) ==
    Max(0, original_weight + (original_weight * pct) \div 100)

(* the loop that builds adjusted_criteria *)
adjust_criteria(criteria, criterion_id, adjusted_weight) ==
    [i \in 1..Len(criteria) |->
        IF criteria[i].id = criterion_id
        THEN [criteria[i] EXCEPT !.weight = adjusted_weight]
        ELSE criteria[i]]

sensitivity_in_place(s, criterion_id, pct) ==
    LET found == criterion_index_of(s, criterion_id)
        adjusted_scenario ==
            [s EXCEPT !.criteria = adjust_criteria(s.criteria, criterion_id,
                                       adjusted_weight_of(s.criteria[found].weight, pct))]
    IN  IF found = 0 THEN [result |-> "NotFoundError", value |-> None, scenario |-> s]
        ELSE [result |-> "ok",
              value |-> Some([criterionId |-> criterion_id, pct |-> pct,
                              original |-> leaderboard(s),
                              adjusted |-> leaderboard(adjusted_scenario)]),
              scenario |-> adjusted_scenario]

(* sensitivity: what it returns or raises, and the scenario object it was *)
(* given as it is after the call                                         *)
sensitivity(s, criterion_id, pct) ==
    LET found == criterion_index_of(s, criterion_id)
        adjusted_scenario ==
            [s EXCEPT !.criteria = adjust_criteria(s.criteria, criterion_id,
                                       adjusted_weight_of(s.criteria[found].weight, pct))]
    IN  IF found = 0 THEN [result |-> "NotFoundError", value |-> None, scenario |-> s]
        ELSE [result |-> "ok",
              value |-> Some([criterionId |-> criterion_id, pct |-> pct,
                              original |-> leaderboard(s),
                              adjusted |-> leaderboard(adjusted_scenario)]),
              scenario |-> s]

(* ----------------------- JSON documents of scenarios ------------------ *)

JNull == [t |-> "null"]

JBool(b) == [t |-> "boolean", v |-> b]

JNum(n) == [t |-> "number", v |-> n]

JStr(x) == [t |-> "string", v |-> x]

JArr(seq) == [t |-> "array", v |-> seq]

JObj(fields) == [t |-> "object", v |-> fields]

(* a datetime is written as its ISO 8601 text and read back from it *)
isoformat(dt) == [iso |-> dt]

fromisoformat(text) == text.iso

dump_optional_str(x) == IF x = None THEN JNull ELSE JStr(x[1])

(* the values the services put into details: Optional[int], int or str *)
dump_detail(key, value) ==
    IF key = "oldValue" THEN (IF value = None THEN JNull ELSE JNum(value[1]))
    ELSE IF key \in {"newValue", "oldWeight", "newWeight"} THEN JNum(value)
    ELSE JStr(value)

dump_criterion(c) ==
    JObj([id |-> JStr(c.id), name |-> JStr(c.name), weight |-> JNum(c.weight),
          anchors |-> JObj([hi |-> JStr(c.anchors.hi), lo |-> JStr(c.anchors.lo)]),
          active |-> JBool(c.active)])

dump_option(o) ==
    JObj([id |-> JStr(o.id), name |-> JStr(o.name), notes |-> dump_optional_str(o.notes)])

dump_score(sc) ==
    JObj([optionId |-> JStr(sc.optionId), criterionId |-> JStr(sc.criterionId),
          raw |-> JNum(sc.raw), rationale |-> dump_optional_str(sc.rationale)])

dump_event(e) ==
    JObj([ts |-> JStr(isoformat(e.ts)), actor |-> JStr(e.actor), type |-> JStr(e.type),
          details |-> JObj([k \in DOMAIN e.details |-> dump_detail(k, e.details[k])])])

dump_settings(st) ==
    JObj([rationalePolicy |-> JStr(st.rationalePolicy), flowDefault |-> JStr(st.flowDefault),
          sensitivityStep |-> JNum(st.sensitivityStep)])

model_dump(s) ==
    JObj([id |-> JStr(s.id), title |-> JStr(s.title),
          createdAt |-> JStr(isoformat(s.createdAt)),
          modifiedAt |-> JStr(isoformat(s.modifiedAt)),
          weightsLocked |-> JBool(s.weightsLocked),
          criteria |-> JArr([i \in 1..Len(s.criteria) |-> dump_criterion(s.criteria[i])]),
          options |-> JArr([i \in 1..Len(s.options) |-> dump_option(s.options[i])]),
          scores |-> JArr([i \in 1..Len(s.scores) |-> dump_score(s.scores[i])]),
          settings |-> dump_settings(s.settings),
          audit |-> JArr([i \in 1..Len(s.audit) |-> dump_event(s.audit[i])])])

parse_optional_str(j) == IF j.t = "null" THEN None ELSE Some(j.v)

parse_detail(key, j) ==
    IF key = "oldValue" THEN (IF j.t = "null" THEN None ELSE Some(j.v)) ELSE j.v

parse_criterion(j) ==
    [id |-> j.v.id.v, name |-> j.v.name.v, weight |-> j.v.weight.v,
     anchors |-> [hi |-> j.v.anchors.v.hi.v, lo |-> j.v.anchors.v.lo.v],
     active |-> j.v.active.v]

parse_option(j) ==
    [id |-> j.v.id.v, name |-> j.v.name.v, notes |-> parse_optional_str(j.v.notes)]

parse_score_without_rationale(j) ==
    [optionId |-> j.v.optionId.v, criterionId |-> j.v.criterionId.v,
     raw |-> j.v.raw.v, rationale |-> None]

parse_score(j) ==
    [optionId |-> j.v.optionId.v, criterionId |-> j.v.criterionId.v,
     raw |-> j.v.raw.v, rationale |-> parse_optional_str(j.v.rationale)]

parse_event(j) ==
    [ts |-> fromisoformat(j.v.ts.v), actor |-> j.v.actor.v, type |-> j.v.type.v,
     details |-> [k \in DOMAIN j.v.details.v |-> parse_detail(k, j.v.details.v[k])]]

parse_settings(j) ==
    [rationalePolicy |-> j.v.rationalePolicy.v, flowDefault |-> j.v.flowDefault.v,
     sensitivityStep |-> j.v.sensitivityStep.v]

parse_scenario(j) ==
    [id |-> j.v.id.v, title |-> j.v.title.v,
     createdAt |-> fromisoformat(j.v.createdAt.v),
     modifiedAt |-> fromisoformat(j.v.modifiedAt.v),
     weightsLocked |-> j.v.weightsLocked.v,
     criteria |-> [i \in 1..Len(j.v.criteria.v) |-> parse_criterion(j.v.criteria.v[i])],
     options |-> [i \in 1..Len(j.v.options.v) |-> parse_option(j.v.options.v[i])],
     scores |-> [i \in 1..Len(j.v.scores.v) |-> parse_score(j.v.scores.v[i])],
     settings |-> parse_settings(j.v.settings),
     audit |-> [i \in 1..Len(j.v.audit.v) |-> parse_event(j.v.audit.v[i])]]

(* the constraints the field declarations of the models state *)
fields_valid(s) ==
    /\ \A i \in 1..Len(s.criteria) : s.criteria[i].weight >= 0
    /\ \A i \in 1..Len(s.scores) : 1 <= s.scores[i].raw /\ s.scores[i].raw <= 5
    /\ s.settings.sensitivityStep > 0

(* Scenario.model_validate: the scenario, or None when validation raises *)
model_validate(j) ==
    LET s == parse_scenario(j) IN IF fields_valid(s) THEN Some(s) ELSE None

(* ------------------------------ file system --------------------------- *)

Path(dir, stem, suffix) == [dir |-> dir, stem |-> stem, suffix |-> suffix]

with_suffix(path, suffix) == [path EXCEPT !.suffix = suffix]

NoFiles == [path \in {} |-> 0]

Exists(fs, path) == path \in DOMAIN fs

(* a file under construction holds a part of the text, a closed one all of it *)
Partial(doc) == [complete |-> FALSE, doc |-> doc]

Complete(doc) == [complete |-> TRUE, doc |-> doc]

(* a closed file together with its modification time, where the time is read *)
Written(doc, now) == [complete |-> TRUE, doc |-> doc, mtime |-> now]

WriteFile(fs, path, content) ==
    [q \in (DOMAIN fs) \cup {path} |-> IF q = path THEN content ELSE fs[q]]

Unlink(fs, path) == [q \in (DOMAIN fs) \ {path} |-> fs[q]]

(* Path.replace: one atomic rename over the target *)
Replace(fs, source, target) ==
    IF source = target THEN fs ELSE Unlink(WriteFile(fs, target, fs[source]), source)

(* what a reader of the path finds: nothing, or the content of the file *)
Content(fs, path) == IF Exists(fs, path) THEN Some(fs[path]) ELSE None

(* ---------------------------- JSON repository ------------------------- *)

Whitespace == {" ", "\t", "\n", "\r"}

Lower == {"a", "b", "c", "d", "e", "f", "g", "h", "i", "j", "k", "l", "m",
          "n", "o", "p", "q", "r", "s", "t", "u", "v", "w", "x", "y", "z"}

Upper == {"A", "B", "C", "D", "E", "F", "G", "H", "I", "J", "K", "L", "M",
          "N", "O", "P", "Q", "R", "S", "T", "U", "V", "W", "X", "Y", "Z"}

Digits == {"0", "1", "2", "3", "4", "5", "6", "7", "8", "9"}

IdChars == Lower \cup Upper \cup Digits \cup {"_", "-"}

(* str.strip() leaves nothing *)
blank(text) == \A i \in 1..Len(text) : text[i] \in Whitespace

contains_char(text, ch) == \E i \in 1..Len(text) : text[i] = ch

contains_dotdot(text) == \E i \in 1..(Len(text) - 1) : text[i] = "." /\ text[i + 1] = "."

(* re.match(r'^[a-zA-Z0-9_-]+$', text): $ also matches before a final newline *)
id_pattern_matches(text) ==
    \E k \in 1..Len(text) :
        /\ \A i \in 1..k : text[i] \in IdChars
        /\ k = Len(text) \/ (k = Len(text) - 1 /\ text[Len(text)] = "\n")

(* the three checks of _get_file_path that raise ValidationError *)
id_rejected(scenario_id) ==
    \/ Len(scenario_id) = 0 \/ blank(scenario_id)
    \/ contains_dotdot(scenario_id) \/ contains_char(scenario_id, "/")
    \/ contains_char(scenario_id, "\\")
    \/ ~id_pattern_matches(scenario_id)

get_file_path(scenario_id) == Path("base", scenario_id, ".json")

temp_path_is_file_path(file_path) == file_path

temp_path_of(file_path) == with_suffix(file_path, ".tmp")

keep_temp(fs, temp_path) == fs

(* the except branch of save: remove the temporary file if it is there *)
cleanup_temp(fs, temp_path) == IF Exists(fs, temp_path) THEN Unlink(fs, temp_path) ELSE fs

(* what load returns or raises, as a call result with the scenario loaded *)
load(fs, scenario_id) ==
    IF id_rejected(scenario_id) THEN [result |-> "ValidationError", loaded |-> None]
    ELSE LET file_path == get_file_path(scenario_id)
         IN  IF ~Exists(fs, file_path) THEN [result |-> "NotFoundError", loaded |-> None]
             ELSE IF ~fs[file_path].complete THEN [result |-> "IOError", loaded |-> None]
             ELSE IF model_validate(fs[file_path].doc) = None
                  THEN [result |-> "IOError", loaded |-> None]
             ELSE [result |-> "ok", loaded |-> model_validate(fs[file_path].doc)]

exists(fs, scenario_id) ==
    IF id_rejected(scenario_id) THEN [result |-> "ValidationError", value |-> FALSE]
    ELSE [result |-> "ok", value |-> Exists(fs, get_file_path(scenario_id))]

delete(fs, scenario_id) ==
    IF id_rejected(scenario_id) THEN [result |-> "ValidationError", files |-> fs]
    ELSE IF ~Exists(fs, get_file_path(scenario_id))
         THEN [result |-> "NotFoundError", files |-> fs]
    ELSE [result |-> "ok", files |-> Unlink(fs, get_file_path(scenario_id))]

list_every_file(fs) == {path.stem : path \in {q \in DOMAIN fs : q.dir = "base"}}

(* list: the stems of the files base_path.glob("*.json") finds *)
list(fs) ==
    {path.stem : path \in {q \in DOMAIN fs : q.dir = "base" /\ q.suffix = ".json"}}

(* ------------------------------ file store ---------------------------- *)

DigitAt == <<"0", "1", "2", "3", "4", "5", "6", "7", "8", "9">>

RECURSIVE decimal(_)
decimal(n) == IF n < 10 THEN <<DigitAt[n + 1]>> ELSE decimal(n \div 10) \o <<DigitAt[(n % 10) + 1]>>

(* strftime("%Y%m%d_%H%M%S"): a date part and a time part, one stamp a second *)
strftime(now) == decimal(now \div 10) \o <<"_">> \o decimal(now % 10)

get_backup_dir == "backups"

backup_path_of(scenario_id, now) ==
    Path(get_backup_dir, scenario_id \o <<"_">> \o strftime(now), ".json")

(* _create_backup: load the stored scenario and write it under backups/ *)
create_backup(fs, scenario_id, now) ==
    LET current == load(fs, scenario_id)
    IN  IF current.result # "ok" THEN [result |-> current.result, files |-> fs]
        ELSE [result |-> "ok",
              files |-> WriteFile(fs, backup_path_of(scenario_id, now),
                                  Written(model_dump(current.loaded[1]), now))]

(* the files of the backup directory *)
BackupFiles(fs) == [path \in {q \in DOMAIN fs : q.dir = get_backup_dir} |-> fs[path]]

(* glob(f"{scenario_id}_*.json") in the backup directory *)
backup_glob(fs, scenario_id) ==
    {path \in DOMAIN fs :
        /\ path.dir = get_backup_dir
        /\ path.suffix = ".json"
        /\ Len(path.stem) >= Len(scenario_id) + 1
        /\ SubSeq(path.stem, 1, Len(scenario_id) + 1) = scenario_id \o <<"_">>}

backup_info(fs, path) == [filename |-> path, path |-> path, created |-> fs[path].mtime]

(* the files with the latest modification time among the given ones *)
newest_in(fs, paths) == {path \in paths : \A q \in paths : fs[path].mtime >= fs[q].mtime}

(* backups.sort(key=created, reverse=True): the orders the sort can give, *)
(* one for each order in which glob yields files of equal time            *)
RECURSIVE sorted_newest_first(_, _)
sorted_newest_first(fs, paths) ==
    IF paths = {} THEN {<<>>}
    ELSE UNION { { <<backup_info(fs, path)>> \o rest :
                     rest \in sorted_newest_first(fs, paths \ {path}) } :
                 path \in newest_in(fs, paths) }

(* list_backups: every list it can return *)
list_backups(fs, scenario_id) == sorted_newest_first(fs, backup_glob(fs, scenario_id))

(* restore_from_backup reads backups/<backup_filename>; scenario_id is not used *)
restore_from_backup(fs, scenario_id, backup_filename) ==
    IF ~Exists(fs, backup_filename) THEN [result |-> "FileNotFoundError", restored |-> None]
    ELSE IF ~fs[backup_filename].complete
         THEN [result |-> "JSONDecodeError", restored |-> None]
    ELSE IF model_validate(fs[backup_filename].doc) = None
         THEN [result |-> "pydantic.ValidationError", restored |-> None]
    ELSE [result |-> "ok", restored |-> model_validate(fs[backup_filename].doc)]

(* backups[keep_count:] *)
slice_from(seq, start) == SubSeq(seq, start + 1, Len(seq))

(* cleanup_old_backups, given the list list_backups returned *)
cleanup_old_backups(fs, backups, keep_count) ==
    LET old == slice_from(backups, keep_count)
    IN  [q \in (DOMAIN fs) \ {old[i].path : i \in 1..Len(old)} |-> fs[q]]

(* ------------------------------- actions ------------------------------ *)

(* the ids _get_file_path turns into a path *)
AcceptedIds == {scenario_id \in InIds \cup BackupIds : ~id_rejected(scenario_id)}


NoCall == [op |-> "create", result |-> "ok"]

(* The caller keeps the returned scenario, or the one it had when the call *)
(* raised.  The clock is read once per logged event and then moves on.     *)
Return(r, c, maxAudit) ==
    /\ Len(r.scenario.audit) <= maxAudit
    /\ Len(r.scenario.scores) <= MaxScores
    /\ prev' = scenario
    /\ scenario' = r.scenario
    /\ call' = [c EXCEPT !.result = r.result]
    /\ clock' = clock + (Len(r.scenario.audit) - Len(scenario.audit))
    /\ UNCHANGED <<files, lastSaved, saving>>

Init ==
    /\ \E criteria \in CriteriaChoices : scenario = create(criteria)
    /\ prev = scenario
    /\ call = NoCall
    /\ clock = 0
    /\ files = NoFiles
    /\ lastSaved = [scenario_id \in AcceptedIds |-> None]
    /\ saving = None

LockWeightsBy(actors, maxAudit) ==
    \E actor \in actors :
        Return(lock_weights(scenario, actor, clock),
               [op |-> "lock_weights", result |-> "", actor |-> actor], maxAudit)

UnlockWeightsBy(actors, reasons, maxAudit) ==
    \E actor \in actors, reason \in reasons :
        Return(unlock_weights(scenario, actor, reason, clock),
               [op |-> "unlock_weights", result |-> "", actor |-> actor, reason |-> reason],
               maxAudit)

SetWeightBy(weights, actors, reasons, maxAudit) ==
    \E criterion_id \in InCriterionIds, weight \in weights,
       actor \in actors, reason \in reasons :
        Return(set_weight(scenario, criterion_id, weight, actor, reason, clock),
               [op |-> "set_weight", result |-> "", criterionId |-> criterion_id,
                weight |-> weight, actor |-> actor, reason |-> reason], maxAudit)

SetScoreBy(actors, rationales, maxAudit) ==
    \E option_id \in InOptionIds, criterion_id \in InCriterionIds, raw \in InRaws,
       actor \in actors, rationale \in rationales :
        Return(set_score(scenario, option_id, criterion_id, raw, actor, rationale, clock),
               [op |-> "set_score", result |-> "", optionId |-> option_id,
                criterionId |-> criterion_id, raw |-> raw, actor |-> actor,
                rationale |-> rationale], maxAudit)

SetRationaleBy(rationales, actors, maxAudit) ==
    \E option_id \in InOptionIds, criterion_id \in InCriterionIds,
       rationale \in rationales, actor \in actors :
        Return(set_rationale(scenario, option_id, criterion_id, rationale, actor),
               [op |-> "set_rationale", result |-> "", optionId |-> option_id,
                criterionId |-> criterion_id, rationale |-> rationale, actor |-> actor],
               maxAudit)

LogEventBy(actors, maxAudit) ==
    \E actor \in actors :
        Return(Ok(log_event(scenario, actor, "note", EmptyDetails, clock)),
               [op |-> "log_event", result |-> "", actor |-> actor,
                type |-> "note", details |-> EmptyDetails], maxAudit)

(* --- all the services, one scenario, the actor and reason the UI passes --- *)

LockWeights == LockWeightsBy({"user"}, MaxAudit)

UnlockWeights == UnlockWeightsBy({"user"}, {"review"}, MaxAudit)

SetWeight == SetWeightBy({-1, 3}, {"user"}, {"review"}, MaxAudit)

SetScore == SetScoreBy({"user"}, {None}, MaxAudit)

SetRationale == SetRationaleBy({Str("b", MaxRationaleLen)}, {"user"}, MaxAudit)

LogEvent == LogEventBy({"user"}, MaxAudit)

Next ==
    \/ LockWeights
    \/ UnlockWeights
    \/ SetWeight
    \/ SetScore
    \/ SetRationale
    \/ LogEvent

Spec == Init /\ [][Next]_vars

(* --- the weights service alone, with every weight, actor and reason --- *)

WLockWeights == LockWeightsBy(Actors, MaxAuditW)

WUnlockWeights == UnlockWeightsBy(Actors, Reasons, MaxAuditW)

WSetWeight == SetWeightBy(InWeights, {"admin"}, Reasons, MaxAuditW)

NextWeights ==
    \/ WLockWeights
    \/ WUnlockWeights
    \/ WSetWeight

SpecWeights == Init /\ [][NextWeights]_vars

(* --- the scoring service alone, with every rationale --- *)

SSetScore == SetScoreBy({"user"}, InScoreRationales, MaxAuditS)

SSetRationale == SetRationaleBy(InRationales, {"user"}, MaxAuditS)

NextScoring ==
    \/ SSetScore
    \/ SSetRationale

SpecScoring == Init /\ [][NextScoring]_vars

(* --- the repository and the file store, saving step by step --- *)

(* scenarios to save: made by the services, with rationales, every kind of *)
(* audit detail and a locked and an unlocked flag                          *)
NewScenario == create(<<Criterion("c1", "Relevance", 2), Criterion("c2", "Burden", 1)>>)

ScoredScenario ==
    set_score(NewScenario, "opt1", "c1", 4, "user", Some(Str("a", 2)), 1).scenario

ReviewedScenario ==
    LET weighed == set_weight(ScoredScenario, "c2", 3, "admin", "typo", 2).scenario
        locked == lock_weights(weighed, "admin", 3).scenario
        rescored == set_score(locked, "opt1", "c1", 1, "user", None, 4).scenario
        explained == set_rationale(rescored, "opt2", "c2", Str("b", MaxRationaleLen),
                                   "user").scenario
    IN  unlock_weights(explained, "admin", "review", 5).scenario

InScenarios == {ScoredScenario, ReviewedScenario}

(* the store is used on its own: the services are not called meanwhile *)
InitStore == Init /\ scenario = NewScenario

Idle == saving = None

StoreFrame == UNCHANGED <<scenario, prev, clock>>

(* a call of the store returns or raises *)
Finish(c, fs, saved) ==
    /\ call' = c
    /\ files' = fs
    /\ lastSaved' = saved
    /\ saving' = None
    /\ StoreFrame

(* the call record of a save that ended with `result` at the step `at` *)
SaveCall(job, result, at) ==
    [op |-> job.op, result |-> result, at |-> at, id |-> job.id, scenario |-> job.scenario,
     before |-> job.before, accessed |-> job.accessed]

(* save up to open(temp_path, "w"): the id is checked, FileStore.save makes *)
(* its backup, and the temporary file is opened, or the open fails         *)
BeginSave(op, backup, ids, samples, opens) ==
    \E sample \in samples, scenario_id \in ids, opened \in opens :
        LET s == [sample EXCEPT !.id = scenario_id]
            file_path == get_file_path(scenario_id)
            temp_path == temp_path_of(file_path)
            backed == IF backup /\ Exists(files, file_path)
                      THEN create_backup(files, scenario_id, clock)
                      ELSE [result |-> "ok", files |-> files]
            job == [op |-> op, id |-> scenario_id, scenario |-> s, stage |-> "writing",
                    before |-> Content(files, file_path),
                    backup |-> backup, began |-> clock,
                    backups_before |-> BackupFiles(files),
                    accessed |-> (DOMAIN backed.files \ DOMAIN files)
                                     \cup (IF backup THEN {file_path} ELSE {})]
        IN  /\ Idle
            /\ IF id_rejected(scenario_id)
               THEN Finish(SaveCall([job EXCEPT !.accessed = {}], "ValidationError", "id"),
                           files, lastSaved)
               ELSE IF backed.result # "ok"
               THEN Finish(SaveCall(job, backed.result, "backup"), files, lastSaved)
               ELSE IF ~opened
               THEN Finish(SaveCall([job EXCEPT !.accessed = @ \cup {temp_path}], "IOError",
                                    "open"),
                           cleanup_temp(backed.files, temp_path), lastSaved)
               ELSE /\ files' = WriteFile(backed.files, temp_path, Partial(model_dump(s)))
                    /\ saving' = Some([job EXCEPT !.accessed = @ \cup {temp_path}])
                    /\ UNCHANGED <<call, lastSaved>>
                    /\ StoreFrame


(* json.dump wrote everything and the with block closed the file *)
FinishWrite ==
    /\ ~Idle /\ saving[1].stage = "writing"
    /\ files' = WriteFile(files, temp_path_of(get_file_path(saving[1].id)),
                          Complete(model_dump(saving[1].scenario)))
    /\ saving' = Some([saving[1] EXCEPT !.stage = "written"])
    /\ UNCHANGED <<call, lastSaved>>
    /\ StoreFrame

(* json.dump or the close raised *)
FailWrite ==
    /\ ~Idle /\ saving[1].stage = "writing"
    /\ Finish(SaveCall(saving[1], "IOError", "write"),
              cleanup_temp(files, temp_path_of(get_file_path(saving[1].id))), lastSaved)

(* temp_path.replace(file_path) *)
Rename ==
    LET file_path == get_file_path(saving[1].id)
    IN  /\ ~Idle /\ saving[1].stage = "written"
        /\ Finish(SaveCall([saving[1] EXCEPT !.accessed = @ \cup {file_path}], "ok", "end"),
                  Replace(files, temp_path_of(file_path), file_path),
                  [lastSaved EXCEPT ![saving[1].id] = Some(saving[1].scenario)])

(* temp_path.replace(file_path) raised *)
FailRename ==
    /\ ~Idle /\ saving[1].stage = "written"
    /\ Finish(SaveCall(saving[1], "IOError", "rename"),
              cleanup_temp(files, temp_path_of(get_file_path(saving[1].id))), lastSaved)

(* the process stops in the middle of a save: no handler runs *)
Crash ==
    /\ ~Idle
    /\ Finish(SaveCall(saving[1], "crashed", saving[1].stage), files, lastSaved)

(* a reader, whether a save is under way or not *)
LoadOf(ids) ==
    \E scenario_id \in ids :
        LET r == load(files, scenario_id)
        IN  /\ call' = [op |-> "load", result |-> r.result, id |-> scenario_id,
                        loaded |-> r.loaded,
                        accessed |-> IF r.result = "ValidationError" THEN {}
                                     ELSE {get_file_path(scenario_id)}]
            /\ UNCHANGED <<files, lastSaved, saving>>
            /\ StoreFrame

ExistsOf(ids) ==
    \E scenario_id \in ids :
        LET r == exists(files, scenario_id)
        IN  /\ call' = [op |-> "exists", result |-> r.result, id |-> scenario_id,
                        value |-> r.value,
                        accessed |-> IF r.result = "ValidationError" THEN {}
                                     ELSE {get_file_path(scenario_id)}]
            /\ UNCHANGED <<files, lastSaved, saving>>
            /\ StoreFrame

DeleteOf(ids) ==
    \E scenario_id \in ids :
        LET r == delete(files, scenario_id)
        IN  /\ Idle
            /\ Finish([op |-> "delete", result |-> r.result, id |-> scenario_id,
                       saved |-> IF scenario_id \in AcceptedIds THEN lastSaved[scenario_id]
                                 ELSE None,
                       removed |-> DOMAIN files \ DOMAIN r.files,
                       accessed |-> IF r.result = "ValidationError" THEN {}
                                    ELSE {get_file_path(scenario_id)}],
                      r.files,
                      IF r.result = "ok" THEN [lastSaved EXCEPT ![scenario_id] = None]
                      ELSE lastSaved)

ListCall ==
    /\ call' = [op |-> "list", result |-> "ok", value |-> list(files)]
    /\ UNCHANGED <<files, lastSaved, saving>>
    /\ StoreFrame

(* --- one stored scenario: saves that fail or stop at every step, a reader --- *)

SavedId == <<"a">>

SaveOne == BeginSave("save", FALSE, {SavedId}, InScenarios, BOOLEAN)

LoadOne == LoadOf({SavedId})

DeleteOne == DeleteOf({SavedId})

ExistsOne == ExistsOf({SavedId})

NextSave ==
    \/ SaveOne
    \/ FinishWrite
    \/ FailWrite
    \/ Rename
    \/ FailRename
    \/ Crash
    \/ LoadOne
    \/ DeleteOne
    \/ ExistsOne
    \/ ListCall

SpecSave == InitStore /\ [][NextSave]_vars

(* --- the repository and the file store with every id, saves that succeed --- *)

RepositorySave == BeginSave("save", FALSE, InIds, InScenarios, {TRUE})

FileStoreSave == \E backup \in BOOLEAN : BeginSave("file_store_save", backup, InIds, InScenarios, {TRUE})

Load == Idle /\ LoadOf(InIds)

ExistsCall == Idle /\ ExistsOf(InIds)

Delete == DeleteOf(InIds)

NextStore ==
    \/ RepositorySave
    \/ FileStoreSave
    \/ FinishWrite
    \/ Rename
    \/ Load
    \/ ExistsCall
    \/ Delete

SpecStore == InitStore /\ [][NextStore]_vars

(* --- the file store and its backups, over the seconds of the clock --- *)

LockedScenario == lock_weights(NewScenario, "admin", 1).scenario

(* the first id is saved with two scenarios, the second with one *)
BackupSave ==
    \E backup \in BOOLEAN :
        \/ BeginSave("file_store_save", backup, {<<"a">>}, {NewScenario, LockedScenario},
                     {TRUE})
        \/ BeginSave("file_store_save", backup, {<<"a", "_", "b">>}, {NewScenario}, {TRUE})

(* the next second begins, between two calls *)
Tick ==
    /\ Idle
    /\ clock < MaxClock
    /\ clock' = clock + 1
    /\ UNCHANGED <<scenario, prev, call, files, lastSaved, saving>>

ListBackups ==
    \E scenario_id \in BackupIds :
        \E backups \in list_backups(files, scenario_id) :
            /\ Idle
            /\ call' = [op |-> "list_backups", result |-> "ok", id |-> scenario_id,
                        value |-> backups]
            /\ UNCHANGED <<files, lastSaved, saving>>
            /\ StoreFrame

(* the file names a caller passes are those list_backups gave, or a name *)
(* with a time at which no backup was made                               *)
RestoreFromBackup ==
    \E scenario_id \in BackupIds, stamp \in 0..MaxClock :
        LET backup_filename == backup_path_of(scenario_id, stamp)
            r == restore_from_backup(files, scenario_id, backup_filename)
        IN  /\ Idle
            /\ call' = [op |-> "restore_from_backup", result |-> r.result,
                        id |-> scenario_id, filename |-> backup_filename,
                        restored |-> r.restored]
            /\ UNCHANGED <<files, lastSaved, saving>>
            /\ StoreFrame

CleanupOldBackups ==
    \E scenario_id \in BackupIds, keep_count \in InKeepCounts :
        \E backups \in list_backups(files, scenario_id) :
            /\ Idle
            /\ Finish([op |-> "cleanup_old_backups", result |-> "ok", id |-> scenario_id,
                       keep_count |-> keep_count],
                      cleanup_old_backups(files, backups, keep_count), lastSaved)

NextBackups ==
    \/ BackupSave
    \/ FinishWrite
    \/ Rename
    \/ Tick
    \/ ListBackups
    \/ RestoreFromBackup
    \/ CleanupOldBackups

SpecBackups == InitStore /\ [][NextBackups]_vars

(* --- documents that something other than save put in the file, and load --- *)

(* a stored scenario with one field of each kind set to the given value *)
Variant(weight, raw, criterion_id, option_id) ==
    [ScoredScenario EXCEPT !.id = SavedId,
                           !.criteria[1].weight = weight,
                           !.criteria[2].id = criterion_id,
                           !.options[2].id = option_id,
                           !.scores[1].raw = raw]

InDocuments ==
    { model_dump(Variant(weight, raw, criterion_id, option_id)) :
          weight \in {-1, 0, 2}, raw \in {0, 1, 5, 6},
          criterion_id \in {"c1", "c2"}, option_id \in {"opt1", "opt2"} }

(* an editor, a sync tool or an older version writes the whole file *)
PlaceDocument ==
    \E doc \in InDocuments :
        /\ Idle
        /\ files' = WriteFile(files, get_file_path(SavedId), Complete(doc))
        /\ UNCHANGED <<call, lastSaved, saving>>
        /\ StoreFrame

NextLoad ==
    \/ PlaceDocument
    \/ LoadOne

SpecLoad == InitStore /\ [][NextLoad]_vars

(* --- the analysis of one scenario: totals, leaderboard, contributions, --- *)
(* --- gaps to the winner and sensitivity                                --- *)

AnalysisCriteria ==
    { <<Criterion("c1", "Relevance", 10), Criterion("c2", "Burden", 5)>>,
      <<Criterion("c1", "Relevance", 0), Criterion("c2", "Burden", 0)>>,
      <<Criterion("c1", "Relevance", 10)>>,
      <<Criterion("c1", "Relevance", 5), Criterion("c1", "Burden", 10)>> }

AnalysisOptions ==
    { <<>>,
      <<Option("opt1", "A")>>,
      <<Option("opt1", "A"), Option("opt2", "B")>>,
      <<Option("opt1", "A"), Option("opt2", "B"), Option("opt3", "C")>> }

(* a score that is absent, or its raw value *)
AnalysisRaws ==
    <<[optionId |-> "opt1", criterionId |-> "c1", raws |-> {0, 5}],
      [optionId |-> "opt2", criterionId |-> "c2", raws |-> {0, 1}],
      [optionId |-> "opt1", criterionId |-> "c2", raws |-> {0, 5}],
      [optionId |-> "opt3", criterionId |-> "c1", raws |-> {0, 3}],
      [optionId |-> "opt2", criterionId |-> "c1", raws |-> {0, 1, 5}],
      [optionId |-> "opt1", criterionId |-> "c9", raws |-> {0, 4}]>>

AnalysisScores ==
    { LET present == SelectSeq([i \in 1..Len(AnalysisRaws) |->
                                   [at |-> i, raw |-> raws[i]]],
                               LAMBDA e : e.raw # 0)
      IN  [i \in 1..Len(present) |->
              Score(AnalysisRaws[present[i].at].optionId,
                    AnalysisRaws[present[i].at].criterionId, present[i].raw, None)] :
      raws \in { f \in [1..Len(AnalysisRaws) -> 0..5] :
                    \A i \in 1..Len(AnalysisRaws) : f[i] \in AnalysisRaws[i].raws } }

AnalysisScenarios ==
    { [NewScenario EXCEPT !.criteria = criteria, !.options = options, !.scores = scores] :
      criteria \in AnalysisCriteria, options \in AnalysisOptions, scores \in AnalysisScores }

InOptionIdLists == { <<>>, <<"opt1">>, <<"opt2", "opt1">>, <<"opt1", "optX">> }

InSensitivityIds == {"c1", "c2", "c9"}

InPcts == {-200, -100, -20, 0, 100}

InitAnalysis ==
    /\ scenario \in AnalysisScenarios
    /\ prev = scenario
    /\ call = NoCall
    /\ clock = 0
    /\ files = NoFiles
    /\ lastSaved = [scenario_id \in AcceptedIds |-> None]
    /\ saving = None

(* the analysis reads the scenario object; after holds it as the call left it *)
Analysed(c, after) ==
    /\ call' = c
    /\ prev' = scenario
    /\ scenario' = after
    /\ UNCHANGED <<clock, files, lastSaved, saving>>

Totals == Analysed([op |-> "totals", result |-> "ok", value |-> totals(scenario)], scenario)

Leaderboard ==
    Analysed([op |-> "leaderboard", result |-> "ok", value |-> leaderboard(scenario)],
             scenario)

Contributions ==
    \E option_ids \in InOptionIdLists :
        Analysed([op |-> "contributions", result |-> "ok", option_ids |-> option_ids,
                  value |-> contributions(scenario, option_ids)], scenario)

DeltaToWinner ==
    Analysed([op |-> "delta_to_winner", result |-> "ok",
              value |-> delta_to_winner(scenario)], scenario)

Sensitivity ==
    \E criterion_id \in InSensitivityIds, pct \in InPcts :
        LET r == sensitivity(scenario, criterion_id, pct)
        IN  Analysed([op |-> "sensitivity", result |-> r.result,
                      criterion_id |-> criterion_id, pct |-> pct, value |-> r.value],
                     r.scenario)

NextAnalysis == Totals \/ Leaderboard \/ Contributions \/ DeltaToWinner \/ Sensitivity

SpecAnalysis == InitAnalysis /\ [][NextAnalysis]_vars

(* --- set_weight and set_score on objects: the caller keeps its reference --- *)

(* what the call returned or raised, the scenario the caller gave as it is *)
(* seen through the caller's reference after the call, and whether the     *)
(* returned object is the one the caller gave                              *)
Outcome(r, c) ==
    [c EXCEPT !.held = observe(r.heap, HeldRef), !.same_object = (r.ref = HeldRef)]

HSetWeight ==
    \E criterion_id \in InCriterionIds, weight \in InWeights :
        LET r == heap_set_weight(on_heap(scenario), HeldRef, criterion_id, weight,
                                 "user", "review", clock)
        IN  Return([result |-> r.result,
                    scenario |-> IF r.result = "ok" THEN observe(r.heap, r.ref) ELSE scenario],
                   Outcome(r, [op |-> "set_weight", result |-> "",
                               criterionId |-> criterion_id, weight |-> weight,
                               actor |-> "user", reason |-> "review",
                               held |-> scenario, same_object |-> FALSE]), MaxAudit)

HSetScore ==
    \E option_id \in InOptionIds, criterion_id \in InCriterionIds, raw \in InRaws :
        LET r == heap_set_score(on_heap(scenario), HeldRef, option_id, criterion_id, raw,
                                "user", None, clock)
        IN  Return([result |-> r.result,
                    scenario |-> IF r.result = "ok" THEN observe(r.heap, r.ref) ELSE scenario],
                   Outcome(r, [op |-> "set_score", result |-> "", optionId |-> option_id,
                               criterionId |-> criterion_id, raw |-> raw, actor |-> "user",
                               rationale |-> None,
                               held |-> scenario, same_object |-> FALSE]), MaxAudit)

NextObjects == HSetWeight \/ HSetScore \/ LockWeights

SpecObjects == Init /\ [][NextObjects]_vars

(* --- the calls that change totals: scores up to the highest raw value, --- *)
(* --- weights down to 0                                                 --- *)

InTotalRaws == {1, 5, 6}

TSetScore ==
    \E criterion_id \in InCriterionIds, raw \in InTotalRaws :
        Return(set_score(scenario, "opt1", criterion_id, raw, "user", None, clock),
               [op |-> "set_score", result |-> "", optionId |-> "opt1",
                criterionId |-> criterion_id, raw |-> raw, actor |-> "user",
                rationale |-> None], MaxAudit)

TSetWeight == SetWeightBy(InWeights, {"user"}, {"review"}, MaxAudit)

NextTotals ==
    \/ TSetScore
    \/ TSetWeight
    \/ SetRationale
    \/ LockWeights
    \/ UnlockWeights

SpecTotals == Init /\ [][NextTotals]_vars

(* ------------------------------ properties ---------------------------- *)

HasCriterion(s, criterion_id) == \E i \in 1..Len(s.criteria) : s.criteria[i].id = criterion_id

HasOption(s, option_id) == \E i \in 1..Len(s.options) : s.options[i].id = option_id

IsPair(sc, option_id, criterion_id) == sc.optionId = option_id /\ sc.criterionId = criterion_id

HasScore(s, option_id, criterion_id) ==
    \E i \in 1..Len(s.scores) : IsPair(s.scores[i], option_id, criterion_id)

IsPrefix(a, b) == Len(a) <= Len(b) /\ \A i \in 1..Len(a) : b[i] = a[i]

(* the audit of `after` is the audit of `before` followed by exactly one event *)
OneMoreEvent(before, after) ==
    /\ Len(after.audit) = Len(before.audit) + 1
    /\ IsPrefix(before.audit, after.audit)

LastEvent(s) == s.audit[Len(s.audit)]

Succeeded(op) == call.op = op /\ call.result = "ok"

(* C1: set_weight on a scenario whose weights are locked fails with        *)
(* LockedError whatever the criterion id and the weight are (a negative    *)
(* weight and an unknown id included), and the scenario the caller holds   *)
(* afterwards has the same criteria, weightsLocked and audit as before.    *)
C1_LockedSetWeightFails ==
    (call.op = "set_weight" /\ prev.weightsLocked) =>
        /\ call.result = "LockedError"
        /\ scenario.criteria = prev.criteria
        /\ scenario.weightsLocked = prev.weightsLocked
        /\ scenario.audit = prev.audit

C1_Witness ==
    /\ call.op = "set_weight"
    /\ prev.weightsLocked
    /\ call.weight < 0
    /\ ~HasCriterion(prev, call.criterionId)
    /\ call.result = "LockedError"

(* C2: lock_weights succeeds exactly from an unlocked scenario; it then    *)
(* returns a locked scenario whose audit is the input audit plus one       *)
(* weights_locked event with empty details and the given actor; from a     *)
(* locked scenario it raises StateError and nothing changes.               *)
C2_LockWeights ==
    call.op = "lock_weights" =>
        IF prev.weightsLocked
        THEN call.result = "StateError" /\ scenario = prev
        ELSE /\ call.result = "ok"
             /\ scenario.weightsLocked
             /\ OneMoreEvent(prev, scenario)
             /\ LastEvent(scenario).type = "weights_locked"
             /\ DOMAIN LastEvent(scenario).details = {}
             /\ LastEvent(scenario).actor = call.actor

C2_Witness ==
    /\ Succeeded("lock_weights")
    /\ Len(prev.audit) > 0
    /\ scenario.weightsLocked

(* C3: unlock_weights succeeds exactly from a locked scenario; it then     *)
(* returns an unlocked scenario whose audit is the input audit plus one    *)
(* weights_unlocked event with details {reason}; from an unlocked scenario *)
(* it raises StateError and nothing changes.                               *)
C3_UnlockWeights ==
    call.op = "unlock_weights" =>
        IF ~prev.weightsLocked
        THEN call.result = "StateError" /\ scenario = prev
        ELSE /\ call.result = "ok"
             /\ ~scenario.weightsLocked
             /\ OneMoreEvent(prev, scenario)
             /\ LastEvent(scenario).type = "weights_unlocked"
             /\ LastEvent(scenario).details = [reason |-> call.reason]

C3_Witness ==
    /\ Succeeded("unlock_weights")
    /\ prev.weightsLocked
    /\ ~scenario.weightsLocked

(* C4: a successful set_weight keeps the length and order of the criteria, *)
(* gives the first criterion with the id the new weight and leaves its     *)
(* other fields and every other criterion as they were, and appends one    *)
(* weight_changed event {criterionId, oldWeight, newWeight, reason} where  *)
(* oldWeight is that criterion's weight before the call.                   *)
C4_SetWeightEffect ==
    Succeeded("set_weight") =>
        /\ Len(scenario.criteria) = Len(prev.criteria)
        /\ \E i \in 1..Len(prev.criteria) :
              /\ prev.criteria[i].id = call.criterionId
              /\ \A j \in 1..(i - 1) : prev.criteria[j].id # call.criterionId
              /\ scenario.criteria[i].weight = call.weight
              /\ scenario.criteria[i].id = prev.criteria[i].id
              /\ scenario.criteria[i].name = prev.criteria[i].name
              /\ scenario.criteria[i].anchors = prev.criteria[i].anchors
              /\ scenario.criteria[i].active = prev.criteria[i].active
              /\ \A j \in 1..Len(prev.criteria) :
                    j # i => scenario.criteria[j] = prev.criteria[j]
              /\ OneMoreEvent(prev, scenario)
              /\ LastEvent(scenario).type = "weight_changed"
              /\ LastEvent(scenario).details =
                    [criterionId |-> call.criterionId,
                     oldWeight |-> prev.criteria[i].weight,
                     newWeight |-> call.weight,
                     reason |-> call.reason]

(* two criteria share the id, the weight changes, and the audit was not empty *)
C4_Witness ==
    /\ Succeeded("set_weight")
    /\ prev.criteria[1].id = call.criterionId
    /\ prev.criteria[2].id = call.criterionId
    /\ prev.criteria[1].weight # call.weight
    /\ scenario.criteria[2] = prev.criteria[2]
    /\ Len(prev.audit) > 0

(* C5: every successful set_score, one that repeats the stored raw         *)
(* included, appends exactly one score_changed event whose details are     *)
(* {optionId, criterionId, oldValue, newValue}: newValue is the raw passed *)
(* in, oldValue the raw of the Score the input scenario had for the pair,  *)
(* or null when it had none.                                               *)
C5_ScoreChangedEvent ==
    Succeeded("set_score") =>
        /\ OneMoreEvent(prev, scenario)
        /\ LastEvent(scenario).type = "score_changed"
        /\ \E old \in {None} \cup {Some(r) : r \in 1..5} :
              /\ LastEvent(scenario).details =
                    [optionId |-> call.optionId, criterionId |-> call.criterionId,
                     oldValue |-> old, newValue |-> call.raw]
              /\ IF HasScore(prev, call.optionId, call.criterionId)
                 THEN \E i \in 1..Len(prev.scores) :
                         /\ IsPair(prev.scores[i], call.optionId, call.criterionId)
                         /\ \A j \in 1..(i - 1) :
                               ~IsPair(prev.scores[j], call.optionId, call.criterionId)
                         /\ old = Some(prev.scores[i].raw)
                 ELSE old = None

(* the pair already had a Score with the very raw that is set again *)
C5_Witness ==
    /\ Succeeded("set_score")
    /\ \E i \in 1..Len(prev.scores) :
          /\ IsPair(prev.scores[i], call.optionId, call.criterionId)
          /\ prev.scores[i].raw = call.raw
    /\ LastEvent(scenario).details.oldValue = Some(call.raw)
    /\ Len(scenario.audit) = Len(prev.audit) + 1

(* C6: a successful set_score on a pair that has a Score keeps the length  *)
(* of the scores list and replaces the Score at the same index by one with *)
(* the new raw and the supplied rationale, or the previous rationale when  *)
(* none is supplied; on a pair without a Score it appends one Score at the *)
(* end; the Scores of all other pairs keep their value and position.       *)
C6_SetScoreEffect ==
    Succeeded("set_score") =>
        IF HasScore(prev, call.optionId, call.criterionId)
        THEN /\ Len(scenario.scores) = Len(prev.scores)
             /\ \A i \in 1..Len(prev.scores) :
                   IF IsPair(prev.scores[i], call.optionId, call.criterionId)
                   THEN scenario.scores[i] =
                            Score(call.optionId, call.criterionId, call.raw,
                                  IF call.rationale # None THEN call.rationale
                                  ELSE prev.scores[i].rationale)
                   ELSE scenario.scores[i] = prev.scores[i]
        ELSE /\ Len(scenario.scores) = Len(prev.scores) + 1
             /\ scenario.scores[Len(scenario.scores)] =
                   Score(call.optionId, call.criterionId, call.raw, call.rationale)
             /\ \A i \in 1..Len(prev.scores) : scenario.scores[i] = prev.scores[i]

(* the first of two Scores is replaced, no rationale is supplied, the old one is kept *)
C6_Witness ==
    /\ Succeeded("set_score")
    /\ Len(prev.scores) = 2
    /\ IsPair(prev.scores[1], call.optionId, call.criterionId)
    /\ call.rationale = None
    /\ prev.scores[1].rationale # None
    /\ prev.scores[1].raw # call.raw
    /\ scenario.scores[1].rationale = prev.scores[1].rationale
    /\ scenario.scores[2] = prev.scores[2]

(* C7: set_score raises ValidationError when raw is outside 1..5 whatever  *)
(* the ids are, otherwise NotFoundError when the option id is unknown,     *)
(* otherwise NotFoundError when the criterion id is unknown; a failing     *)
(* call adds or changes no Score and appends no audit event.               *)
C7_SetScoreErrors ==
    call.op = "set_score" =>
        /\ call.result =
              IF call.raw < 1 \/ call.raw > 5 THEN "ValidationError"
              ELSE IF ~HasOption(prev, call.optionId) THEN "NotFoundError"
              ELSE IF ~HasCriterion(prev, call.criterionId) THEN "NotFoundError"
              ELSE "ok"
        /\ call.result # "ok" =>
              scenario.scores = prev.scores /\ scenario.audit = prev.audit

(* raw is out of range and both ids are unknown: the range is what is reported *)
C7_Witness ==
    /\ call.op = "set_score"
    /\ call.raw > 5
    /\ ~HasOption(prev, call.optionId)
    /\ ~HasCriterion(prev, call.criterionId)
    /\ call.result = "ValidationError"
    /\ Len(prev.scores) > 0

(* C8: on an unlocked scenario set_weight raises ValidationError for a     *)
(* weight below 0 even when the criterion id is unknown, and NotFoundError *)
(* for a weight of at least 0 with an unknown criterion id; in both cases  *)
(* no criterion weight changes and no audit event is appended.             *)
C8_SetWeightErrors ==
    (call.op = "set_weight" /\ ~prev.weightsLocked) =>
        /\ call.weight < 0 => call.result = "ValidationError"
        /\ (call.weight >= 0 /\ ~HasCriterion(prev, call.criterionId)) =>
              call.result = "NotFoundError"
        /\ call.result \in {"ValidationError", "NotFoundError"} =>
              scenario.criteria = prev.criteria /\ scenario.audit = prev.audit

C8_Witness ==
    /\ call.op = "set_weight"
    /\ ~prev.weightsLocked
    /\ call.weight < 0
    /\ ~HasCriterion(prev, call.criterionId)
    /\ call.result = "ValidationError"
    /\ Len(prev.audit) > 0

(* C9: every successful lock_weights, unlock_weights, set_weight,          *)
(* set_score or set_rationale call returns a scenario whose audit has      *)
(* exactly one more event than the audit of the scenario it was given.     *)
C9_OneEventPerMutation ==
    (call.op \in {"lock_weights", "unlock_weights", "set_weight", "set_score",
                  "set_rationale"} /\ call.result = "ok") =>
        Len(scenario.audit) = Len(prev.audit) + 1

(* C10: the audit log is append-only: the audit of the scenario a service  *)
(* call was given is a prefix of the audit of the scenario the caller      *)
(* holds afterwards, so events are never removed, reordered or altered and *)
(* a new event comes last.                                                 *)
C10_AuditAppendOnly == IsPrefix(prev.audit, scenario.audit)

C10_Witness ==
    /\ Succeeded("log_event")
    /\ Len(prev.audit) > 0
    /\ Len(scenario.audit) = Len(prev.audit) + 1

(* C11: referential validity: in every scenario reachable from a newly     *)
(* created one through the services, every Score names an option of the    *)
(* scenario and a criterion of the scenario.                               *)
C11_ReferentialValidity ==
    \A i \in 1..Len(scenario.scores) :
        /\ HasOption(scenario, scenario.scores[i].optionId)
        /\ HasCriterion(scenario, scenario.scores[i].criterionId)

(* C12: starting from an empty scores list, set_score and set_rationale in *)
(* any interleaving keep at most one Score per (optionId, criterionId).    *)
C12_OneScorePerPair ==
    \A i, j \in 1..Len(scenario.scores) :
        IsPair(scenario.scores[i], scenario.scores[j].optionId,
               scenario.scores[j].criterionId) => i = j

(* a pair that had a Score was written again, by either operation, next to another pair *)
C12_Witness ==
    /\ call.op \in {"set_score", "set_rationale"}
    /\ call.result = "ok"
    /\ HasScore(prev, call.optionId, call.criterionId)
    /\ Len(prev.scores) = 2
    /\ Len(scenario.scores) = 2

(* C13: whatever service calls succeed or fail, every criterion weight is  *)
(* a number >= 0 and every Score raw is in 1..5.                           *)
C13_WeightsAndRawsValid ==
    /\ \A i \in 1..Len(scenario.criteria) :
          scenario.criteria[i].weight \in Nat
    /\ \A i \in 1..Len(scenario.scores) :
          scenario.scores[i].raw \in 1..5

(* a negative weight was refused on a scenario that already holds a Score *)
C13_Witness ==
    /\ call.op = "set_weight"
    /\ call.weight < 0
    /\ call.result = "ValidationError"
    /\ HasCriterion(prev, call.criterionId)
    /\ Len(scenario.scores) > 0

(* C14: every Score's rationale is absent or at most 500 characters long:  *)
(* no set_score or set_rationale call stores a longer one.                 *)
C14_RationaleAtMost500 ==
    \A i \in 1..Len(scenario.scores) :
        scenario.scores[i].rationale # None =>
            PyLen(scenario.scores[i].rationale[1]) <= 500

(* C15: set_rationale on a pair without a Score appends one Score with raw *)
(* 3 and the rationale; on a pair with a Score it replaces that Score's    *)
(* rationale only, raw and position kept; the audit is the input's.        *)
C15_SetRationaleEffect ==
    Succeeded("set_rationale") =>
        /\ scenario.audit = prev.audit
        /\ IF HasScore(prev, call.optionId, call.criterionId)
           THEN /\ Len(scenario.scores) = Len(prev.scores)
                /\ \A i \in 1..Len(prev.scores) :
                      IF IsPair(prev.scores[i], call.optionId, call.criterionId)
                      THEN scenario.scores[i] =
                               Score(call.optionId, call.criterionId, prev.scores[i].raw,
                                     Some(call.rationale))
                      ELSE scenario.scores[i] = prev.scores[i]
           ELSE /\ Len(scenario.scores) = Len(prev.scores) + 1
                /\ scenario.scores[Len(scenario.scores)] =
                      Score(call.optionId, call.criterionId, 3, Some(call.rationale))
                /\ \A i \in 1..Len(prev.scores) : scenario.scores[i] = prev.scores[i]

(* the second of two Scores, set to another raw by set_score, gets a new rationale *)
C15_Witness ==
    /\ Succeeded("set_rationale")
    /\ Len(prev.scores) = 2
    /\ IsPair(prev.scores[2], call.optionId, call.criterionId)
    /\ prev.scores[2].raw # 3
    /\ prev.scores[2].rationale # Some(call.rationale)
    /\ scenario.scores[2].raw = prev.scores[2].raw
    /\ Len(prev.audit) > 0

(* C16: set_rationale with more than 500 characters raises ValidationError *)
(* and creates or changes no Score; exactly 500 characters are accepted.   *)
C16_SetRationaleLimit ==
    call.op = "set_rationale" =>
        /\ PyLen(call.rationale) > 500 =>
              call.result = "ValidationError" /\ scenario.scores = prev.scores
        /\ PyLen(call.rationale) = 500 =>
              /\ call.result = "ok"
              /\ HasScore(scenario, call.optionId, call.criterionId)

(* 501 characters are refused on a scenario that holds an accepted one of 500 *)
C16_Witness ==
    /\ call.op = "set_rationale"
    /\ PyLen(call.rationale) = 501
    /\ call.result = "ValidationError"
    /\ \E i \in 1..Len(prev.scores) :
          /\ prev.scores[i].rationale # None
          /\ PyLen(prev.scores[i].rationale[1]) = 500

(* the document json.dump writes for a scenario, all of it on disk *)
Stored(s) == Some(Complete(model_dump(s)))

SaveOps == {"save", "file_store_save"}

(* C17: save is atomic for readers of the canonical path <base>/X.json. At *)
(* every step of a save (temporary file being written, written, renamed,   *)
(* failed or stopped by a crash) the path holds the complete document that *)
(* was there before the save began, or no file if there was none, or the   *)
(* complete new document; it never holds a partly written one, and a load  *)
(* made meanwhile returns a scenario or raises NotFoundError.              *)
C17_SaveAtomic ==
    LET seen == Content(files, get_file_path(SavedId))
    IN  /\ seen # None => seen[1].complete
        /\ ~Idle => seen = saving[1].before
        /\ call.op = "save" /\ call.result \in {"IOError", "crashed"} => seen = call.before
        /\ call.op = "save" /\ call.result = "ok" => seen = Stored(call.scenario)
        /\ call.op = "load" => call.result \in {"ok", "NotFoundError"}

(* a save is writing its temporary file while the canonical path holds an  *)
(* older, different document                                               *)
C17_Witness ==
    /\ ~Idle
    /\ saving[1].stage = "writing"
    /\ ~files[temp_path_of(get_file_path(SavedId))].complete
    /\ Exists(files, get_file_path(SavedId))
    /\ Content(files, get_file_path(SavedId)) # Stored(saving[1].scenario)

(* C18: when a save raises while opening or writing the temporary file or  *)
(* while renaming it, the caller gets IOError, the temporary file does not *)
(* exist afterwards, and the canonical path holds exactly what it held     *)
(* before the save began.                                                  *)
C18_FailedSaveCleansUp ==
    Idle /\ call.op = "save" /\ call.at \in {"open", "write", "rename"} =>
        /\ call.result = "IOError"
        /\ ~Exists(files, temp_path_of(get_file_path(call.id)))
        /\ Content(files, get_file_path(call.id)) = call.before

(* the rename failed after the whole new document was in the temporary     *)
(* file, over an older and different document                              *)
C18_Witness ==
    /\ Idle
    /\ call.op = "save" /\ call.at = "rename" /\ call.result = "IOError"
    /\ call.before # None
    /\ call.before # Stored(call.scenario)

(* C19: after any sequence of successful saves and deletes, load(id)       *)
(* returns a scenario equal in every field (criteria, options, scores,     *)
(* settings and audit in order) to the one most recently saved under that  *)
(* id, and raises NotFoundError when the id was never saved or was deleted *)
(* after its last save.                                                    *)
C19_LoadReturnsLastSaved ==
    /\ \A scenario_id \in AcceptedIds :
          load(files, scenario_id) =
              IF lastSaved[scenario_id] = None
              THEN [result |-> "NotFoundError", loaded |-> None]
              ELSE [result |-> "ok", loaded |-> lastSaved[scenario_id]]
    /\ call.op = "load" /\ call.id \in AcceptedIds =>
          /\ call.loaded = lastSaved[call.id]
          /\ call.result = IF lastSaved[call.id] = None THEN "NotFoundError" ELSE "ok"

(* load returned the second scenario saved under the id: the backup made   *)
(* by that save still holds the first one                                  *)
C19_Witness ==
    /\ call.op = "load" /\ call.result = "ok"
    /\ call.loaded = Some([ReviewedScenario EXCEPT !.id = call.id])
    /\ Exists(files, backup_path_of(call.id, clock))
    /\ files[backup_path_of(call.id, clock)].doc = model_dump([ScoredScenario EXCEPT !.id = call.id])

(* the ids the rule admits: one or more of the characters A-Z a-z 0-9 _ -  *)
(* and nothing else                                                        *)
WellFormedId(scenario_id) ==
    /\ Len(scenario_id) > 0
    /\ \A i \in 1..Len(scenario_id) : scenario_id[i] \in IdChars

(* C20: save, load, exists, delete and FileStore.save, given an id that is *)
(* empty or only whitespace, contains "..", "/" or "\", or is not made of  *)
(* the characters of ^[A-Za-z0-9_-]+$ from start to end, raise             *)
(* ValidationError before any file or directory is read, created, written, *)
(* renamed or removed.                                                     *)
C20_InvalidIdRejected ==
    call.op \in SaveOps \cup {"load", "exists", "delete"} /\ ~WellFormedId(call.id) =>
        /\ call.result = "ValidationError"
        /\ call.accessed = {}

(* no two elements of the list have the same id *)
UniqueIds(items) ==
    \A i \in 1..Len(items), j \in 1..Len(items) : items[i].id = items[j].id => i = j

(* C21: load never returns a scenario that breaks the validated rules:     *)
(* when the stored document has a criterion of weight below 0, a score     *)
(* with raw outside 1..5, two criteria with one id or two options with one *)
(* id, load fails instead of returning a scenario.                         *)
C21_LoadedScenarioValid ==
    call.op = "load" /\ call.result = "ok" =>
        LET s == call.loaded[1]
        IN  /\ \A i \in 1..Len(s.criteria) : s.criteria[i].weight >= 0
            /\ \A i \in 1..Len(s.scores) : s.scores[i].raw \in 1..5
            /\ UniqueIds(s.criteria)
            /\ UniqueIds(s.options)

(* the ids saved with success and not deleted since *)
SavedIds == {scenario_id \in AcceptedIds : lastSaved[scenario_id] # None}

(* C22: after any sequence of saves and deletes, saves that failed or were *)
(* interrupted after the temporary file was written included, list()       *)
(* returns exactly the ids saved with success and not deleted since,       *)
(* exists(id) is true exactly for those ids, and delete of an id outside   *)
(* that set raises NotFoundError and removes nothing.                      *)
C22_ListExistsDelete ==
    /\ list(files) = SavedIds
    /\ \A scenario_id \in AcceptedIds :
          exists(files, scenario_id).value = (scenario_id \in SavedIds)
    /\ call.op = "list" => call.value = SavedIds
    /\ call.op = "exists" /\ call.result = "ok" => call.value = (call.id \in SavedIds)
    /\ call.op = "delete" /\ call.id \in AcceptedIds /\ call.saved = None =>
          call.result = "NotFoundError" /\ call.removed = {}

(* list() is answered with no id while the temporary file of a save that   *)
(* stopped after writing it is still there                                 *)
C22_Witness ==
    /\ call.op = "list" /\ call.value = {}
    /\ Exists(files, temp_path_of(get_file_path(SavedId)))
    /\ files[temp_path_of(get_file_path(SavedId))].complete
    /\ Idle

(* the backups made of the scenario with the given id: a backup holds the *)
(* document of the scenario it was made of, id included                   *)
BackupsOf(fs, scenario_id) ==
    {path \in DOMAIN BackupFiles(fs) : fs[path].doc.v.id.v = scenario_id}

PathsOf(backups) == {backups[i].path : i \in 1..Len(backups)}

NewestFirst(backups) ==
    \A i \in 1..Len(backups), j \in 1..Len(backups) :
        i < j => backups[i].created >= backups[j].created

(* C23: FileStore.save(scenario, create_backup=True) for an id that is     *)
(* stored writes, before the canonical file is overwritten, a backup that  *)
(* restore_from_backup turns into the scenario stored until then; when the *)
(* id is not stored or create_backup is false it writes no backup; and     *)
(* list_backups(id) returns the backups of that id, newest first.          *)
C23_BackupBeforeOverwrite ==
    /\ ~Idle /\ saving[1].op = "file_store_save" =>
          LET job == saving[1]
              backup_path == backup_path_of(job.id, job.began)
          IN  IF job.backup /\ job.before # None
              THEN /\ Content(files, get_file_path(job.id)) = job.before
                   /\ restore_from_backup(files, job.id, backup_path) =
                          [result |-> "ok", restored |-> lastSaved[job.id]]
                   /\ \A path \in DOMAIN BackupFiles(files) \cup DOMAIN job.backups_before :
                          path # backup_path =>
                              Content(files, path) = Content(job.backups_before, path)
              ELSE BackupFiles(files) = job.backups_before
    /\ \A scenario_id \in BackupIds :
          \A backups \in list_backups(files, scenario_id) :
              /\ PathsOf(backups) = BackupsOf(files, scenario_id)
              /\ NewestFirst(backups)

Smaller(a, b) == IF a <= b THEN a ELSE b

(* C24: cleanup_old_backups(id, keep_count = N) with N >= 0 leaves exactly *)
(* min(existing, N) backups of that id, the ones kept are the N most       *)
(* recent by creation time, and the stored scenario file is untouched.     *)
C24_CleanupKeepsNewest ==
    \A scenario_id \in BackupIds, keep_count \in InKeepCounts :
        \A backups \in list_backups(files, scenario_id) :
            LET after == cleanup_old_backups(files, backups, keep_count)
                existing == BackupsOf(files, scenario_id)
                kept == BackupsOf(after, scenario_id)
            IN  /\ Cardinality(kept) = Smaller(Cardinality(existing), keep_count)
                /\ \A path \in kept, gone \in existing \ kept :
                       files[path].mtime >= files[gone].mtime
                /\ \A path \in DOMAIN files \cup DOMAIN after :
                       path.dir # get_backup_dir => Content(after, path) = Content(files, path)

RECURSIVE SumSeq(_)
SumSeq(values) == IF values = <<>> THEN 0 ELSE values[1] + SumSeq(Tail(values))

(* the weights an id can stand for: those of the criteria with that id, *)
(* and 0 when there is none                                             *)
WeightsOfId(criteria, criterion_id) ==
    LET found == {criteria[i].weight :
                     i \in {j \in 1..Len(criteria) : criteria[j].id = criterion_id}}
    IN  IF found = {} THEN {0} ELSE found

WeightChoices(s) ==
    LET ids == CriterionIdsOf(s.scores) \cup {s.criteria[i].id : i \in 1..Len(s.criteria)}
        weights == UNION {WeightsOfId(s.criteria, criterion_id) : criterion_id \in ids}
    IN  {W \in [ids -> weights] :
            \A criterion_id \in ids : W[criterion_id] \in WeightsOfId(s.criteria, criterion_id)}

WeightedSum(s, W, option_id) ==
    LET own == SelectSeq(s.scores, LAMBDA sc : sc.optionId = option_id)
    IN  SumSeq([i \in 1..Len(own) |-> own[i].raw * W[own[i].criterionId]])

MaxPossible(s) == SumSeq([i \in 1..Len(s.criteria) |-> s.criteria[i].weight * 5])

TotalsAsSpecified(s, value) ==
    /\ DOMAIN value = OptionIds(s)
    /\ \E W \in WeightChoices(s) :
          \A option_id \in OptionIds(s) :
              /\ value[option_id].total = WeightedSum(s, W, option_id)
              /\ IF MaxPossible(s) = 0 THEN value[option_id].normalized = Zero
                 ELSE value[option_id].normalized.num * MaxPossible(s)
                          = value[option_id].total * 100 * value[option_id].normalized.den

(* weights [10, 5], scores A: 5, 5 and B: 1, 1 *)
ExampleScenario ==
    [NewScenario EXCEPT
        !.criteria = <<Criterion("c1", "Relevance", 10), Criterion("c2", "Burden", 5)>>,
        !.options = <<Option("opt1", "A"), Option("opt2", "B")>>,
        !.scores = <<Score("opt1", "c1", 5, None), Score("opt2", "c2", 1, None),
                     Score("opt1", "c2", 5, None), Score("opt2", "c1", 1, None)>>]

ExampleTotals ==
    [option_id \in {"opt1", "opt2"} |->
        IF option_id = "opt1" THEN [total |-> 75, normalized |-> [num |-> 100, den |-> 1]]
        ELSE [total |-> 15, normalized |-> [num |-> 20, den |-> 1]]]

(* C25: totals(scenario) maps every option to total = the sum, over the    *)
(* scores of that option, of raw * (the weight of the criterion with the   *)
(* score's criterionId, 0 when there is none), and to normalized =         *)
(* total / maxPossible * 100 with maxPossible = the sum of weight * 5 over *)
(* all criteria, normalized = 0 when maxPossible = 0; the totals the       *)
(* leaderboard shows are the same.  Weights [10, 5] with scores A: 5, 5    *)
(* and B: 1, 1 give A 75 and 100, B 15 and 20.                             *)
C25_Totals ==
    /\ call.op = "totals" =>
          /\ TotalsAsSpecified(prev, call.value)
          /\ prev = ExampleScenario => call.value = ExampleTotals
    /\ call.op = "leaderboard" =>
          /\ {call.value[i].optionId : i \in 1..Len(call.value)} = OptionIds(prev)
          /\ TotalsAsSpecified(prev,
                 [option_id \in OptionIds(prev) |->
                     LET entry == CHOOSE e \in {call.value[i] : i \in 1..Len(call.value)} :
                                      e.optionId = option_id
                     IN  [total |-> entry.total, normalized |-> entry.normalized]])

C25_Witness ==
    /\ call.op = "totals"
    /\ prev = ExampleScenario
    /\ call.value["opt1"].total = 75
    /\ call.value["opt2"].normalized = divide(20, 1)

TotalsOf(entries) == [i \in 1..Len(entries) |-> entries[i].total]

RanksOf(entries) == [i \in 1..Len(entries) |-> entries[i].rank]

(* C26: leaderboard(scenario) contains every option of the scenario exactly *)
(* once, ordered by total non-increasing, and the rank of an entry is 1     *)
(* plus the number of options with a strictly greater total: totals         *)
(* [50, 50, 30] give ranks [1, 1, 3].                                       *)
C26_Leaderboard ==
    call.op = "leaderboard" =>
        /\ Len(call.value) = Len(prev.options)
        /\ \A i \in 1..Len(prev.options) :
               Cardinality({j \in 1..Len(call.value) :
                               call.value[j].optionId = prev.options[i].id}) = 1
        /\ \A i, j \in 1..Len(call.value) :
               i < j => call.value[i].total >= call.value[j].total
        /\ \A i \in 1..Len(call.value) :
               call.value[i].rank
                   = 1 + Cardinality({j \in 1..Len(call.value) :
                                         call.value[j].total > call.value[i].total})
        /\ TotalsOf(call.value) = <<50, 50, 30>> => RanksOf(call.value) = <<1, 1, 3>>

C26_Witness ==
    /\ call.op = "leaderboard"
    /\ TotalsOf(call.value) = <<50, 50, 30>>
    /\ RanksOf(call.value) = <<1, 1, 3>>

WinnerTotal(value) == value.options[value.winner[1]].total

SumConsistent(value) ==
    \A option_id \in DOMAIN value.options :
        WinnerTotal(value) - value.options[option_id].delta = value.options[option_id].total

(* C27 as stated: for every scenario with at least one option,             *)
(* delta_to_winner reports delta = 0 for exactly one option, the winner,   *)
(* and delta >= 0 for all others, and winnerTotal - delta is the option's  *)
(* total for every option.                                                 *)
C27_ZeroForWinnerOnly ==
    (call.op = "delta_to_winner" /\ prev.options # <<>>) =>
        /\ call.value.winner # None
        /\ {option_id \in DOMAIN call.value.options : call.value.options[option_id].delta = 0}
               = {call.value.winner[1]}
        /\ \A option_id \in DOMAIN call.value.options :
               call.value.options[option_id].delta >= 0
        /\ SumConsistent(call.value)

(* C27, amended: for every scenario with at least one option,              *)
(* delta_to_winner reports delta = 0 for the winner and for exactly the    *)
(* options whose total equals the winner's total, delta > 0 for all        *)
(* others, and winnerTotal - delta is the option's total for every option. *)
C27_ZeroForTopTotals ==
    (call.op = "delta_to_winner" /\ prev.options # <<>>) =>
        /\ call.value.winner # None
        /\ DOMAIN call.value.options = OptionIds(prev)
        /\ call.value.winner[1] \in OptionIds(prev)
        /\ call.value.options[call.value.winner[1]].delta = 0
        /\ \A option_id \in OptionIds(prev) :
               /\ call.value.options[option_id].total = calculate_totals(prev)[option_id].total
               /\ call.value.options[option_id].delta >= 0
               /\ call.value.options[option_id].delta = 0
                      <=> call.value.options[option_id].total = WinnerTotal(call.value)
        /\ SumConsistent(call.value)

(* two options share the highest total and a third is below it *)
C27_Witness ==
    /\ call.op = "delta_to_winner"
    /\ Len(prev.options) = 3
    /\ call.value.winner = Some("opt1")
    /\ call.value.options["opt1"] = [total |-> 50, delta |-> 0]
    /\ call.value.options["opt2"] = [total |-> 50, delta |-> 0]
    /\ call.value.options["opt3"] = [total |-> 30, delta |-> 20]

(* the first option, in the scenario's order, that no option exceeds *)
FirstWithMaxTotal(s) ==
    LET all == totals(s)
        top(i) == \A j \in 1..Len(s.options) :
                      all[s.options[j].id].total <= all[s.options[i].id].total
    IN  s.options[CHOOSE i \in 1..Len(s.options) :
                      top(i) /\ \A j \in 1..(i - 1) : ~top(j)].id

(* C28: for every scenario with at least one option, the winner that       *)
(* delta_to_winner reports is the first option, in the scenario's option   *)
(* order, whose total is the maximum total (the first option when all      *)
(* totals are 0), and it is the option of the first leaderboard entry.     *)
C28_WinnerIsFirstMax ==
    /\ (call.op = "delta_to_winner" /\ prev.options # <<>>) =>
           /\ call.value.winner = Some(FirstWithMaxTotal(prev))
           /\ call.value.winner = Some(leaderboard(prev)[1].optionId)
           /\ (\A option_id \in OptionIds(prev) : call.value.options[option_id].total = 0)
                  => call.value.winner = Some(prev.options[1].id)
    /\ (call.op = "leaderboard" /\ prev.options # <<>>) =>
           /\ call.value[1].optionId = FirstWithMaxTotal(prev)
           /\ Some(call.value[1].optionId) = delta_to_winner(prev).winner

(* the totals tie at the top, once at 0 and once above 0, and once a later *)
(* option alone has the highest total                                      *)
C28_Witness ==
    /\ call.op = "delta_to_winner"
    /\ Len(prev.options) >= 2
    /\ call.value.winner = Some("opt1")
    /\ leaderboard(prev)[1].optionId = "opt1"
    /\ call.value.options["opt2"].total = call.value.options["opt1"].total
    /\ call.value.options["opt1"].total > 0

C28_WitnessAllZero ==
    /\ call.op = "delta_to_winner"
    /\ Len(prev.options) >= 2
    /\ call.value.winner = Some("opt1")
    /\ \A option_id \in OptionIds(prev) : call.value.options[option_id].total = 0

C28_WitnessLater ==
    /\ call.op = "delta_to_winner"
    /\ call.value.winner = Some("opt2")
    /\ leaderboard(prev)[1].optionId = "opt2"

RECURSIVE SumOver(_, _)
SumOver(f, keys) ==
    IF keys = {} THEN 0
    ELSE LET key == CHOOSE k \in keys : TRUE
         IN  f[key] + SumOver(f, keys \ {key})

HasCriterionId(s, criterion_id) ==
    \E i \in 1..Len(s.criteria) : s.criteria[i].id = criterion_id

(* the scenarios that differ from s in the weight of that criterion only *)
Reweighted(s, criterion_id) ==
    LET largest == CHOOSE w \in {s.criteria[i].weight : i \in 1..Len(s.criteria)} :
                       \A i \in 1..Len(s.criteria) : s.criteria[i].weight <= w
    IN  { [s EXCEPT !.criteria =
              [i \in 1..Len(s.criteria) |->
                  IF s.criteria[i].id = criterion_id
                  THEN [s.criteria[i] EXCEPT !.weight = w]
                  ELSE s.criteria[i]]] : w \in 0..(2 * largest) }

(* C30: sensitivity(scenario, criterionId, pct) fails with NotFoundError    *)
(* when no criterion has that id; otherwise its 'original' leaderboard is   *)
(* leaderboard(scenario), its 'adjusted' leaderboard is that of a copy in   *)
(* which only that criterion's weight differs (all other criteria, options  *)
(* and scores identical), and the input scenario's criteria weights are the *)
(* same after the call as before.                                           *)
C30_Sensitivity ==
    call.op = "sensitivity" =>
        /\ call.result = IF HasCriterionId(prev, call.criterion_id) THEN "ok"
                         ELSE "NotFoundError"
        /\ call.result = "ok" =>
               /\ call.value[1].original = leaderboard(prev)
               /\ \E copy \in Reweighted(prev, call.criterion_id) :
                      call.value[1].adjusted = leaderboard(copy)
        /\ scenario.criteria = prev.criteria
        /\ scenario = prev

(* the weight is raised and the order of the leaderboard changes *)
C30_Witness ==
    /\ call.op = "sensitivity"
    /\ call.result = "ok"
    /\ call.pct = 100
    /\ Len(prev.options) >= 2
    /\ call.value[1].original[1].optionId # call.value[1].adjusted[1].optionId
    /\ scenario = prev

C30_WitnessNotFound ==
    /\ call.op = "sensitivity"
    /\ call.result = "NotFoundError"
    /\ prev.criteria # <<>>

(* the scenario with the weight of every criterion of that id set to 0 *)
WithoutWeight(s, criterion_id) ==
    [s EXCEPT !.criteria =
        [i \in 1..Len(s.criteria) |->
            IF s.criteria[i].id = criterion_id
            THEN [s.criteria[i] EXCEPT !.weight = 0]
            ELSE s.criteria[i]]]

(* the total of an option when the scores on that criterion contribute 0 *)
TotalWithout(s, W, option_id, criterion_id) ==
    LET own == SelectSeq(s.scores, LAMBDA sc :
                   sc.optionId = option_id /\ sc.criterionId # criterion_id)
    IN  SumSeq([i \in 1..Len(own) |-> own[i].raw * W[own[i].criterionId]])

ClampedToZero ==
    (call.op = "sensitivity" /\ call.result = "ok" /\ call.pct <= -100) =>
        /\ call.value[1].adjusted = leaderboard(WithoutWeight(prev, call.criterion_id))
        /\ \E W \in WeightChoices(prev) :
               \A i \in 1..Len(call.value[1].adjusted) :
                   call.value[1].adjusted[i].total
                       = TotalWithout(prev, W, call.value[1].adjusted[i].optionId,
                                      call.criterion_id)

UnchangedAtZero ==
    (call.op = "sensitivity" /\ call.result = "ok" /\ call.pct = 0) =>
        call.value[1].adjusted = call.value[1].original

(* C31: sensitivity with pct = 0 returns an adjusted leaderboard identical *)
(* to the original (order, totals, normalized values, ranks); with         *)
(* pct = -100 and with any pct below -100 the adjusted weight of the       *)
(* criterion is 0, never negative, so the adjusted totals are the totals   *)
(* computed with that criterion's scores contributing 0.                   *)
C31_ZeroAndClamp == UnchangedAtZero /\ ClampedToZero

(* C31 where no two criteria of the scenario share an id *)
C31_WithUniqueCriterionIds ==
    (\A i, j \in 1..Len(prev.criteria) :
        prev.criteria[i].id = prev.criteria[j].id => i = j) => C31_ZeroAndClamp

(* C32: for every scenario s and every set_weight or set_score call on s, *)
(* the value of s seen through the reference the caller holds (criteria    *)
(* and their weights, scores, audit, weightsLocked) is the same after the  *)
(* call as before, and a call that succeeds returns a distinct object,     *)
(* whose value is the one the service computes.                            *)
C32_CopyOnWrite ==
    call.op \in {"set_weight", "set_score"} =>
        /\ call.held = prev
        /\ call.result = "ok" =>
               /\ ~call.same_object
               /\ scenario = IF call.op = "set_weight"
                             THEN set_weight(prev, call.criterionId, call.weight, call.actor,
                                             call.reason, clock - 1).scenario
                             ELSE set_score(prev, call.optionId, call.criterionId, call.raw,
                                            call.actor, call.rationale, clock - 1).scenario

(* a weight and a score were changed *)
C32_Witness ==
    /\ call.op = "set_weight"
    /\ call.result = "ok"
    /\ scenario.criteria # prev.criteria
    /\ prev.scores # <<>>
    /\ call.held = prev
    /\ ~call.same_object

(* lock_weights(unlock_weights(s, a, r), a), the clock read at each event *)
Relocked(s, actor, reason, now) ==
    LET unlocked == unlock_weights(s, actor, reason, now)
    IN  IF unlocked.result # "ok" THEN unlocked
        ELSE lock_weights(unlocked.scenario, actor, now + 1)

(* C33: for every locked scenario s, lock_weights(unlock_weights(s, a, r), *)
(* a) succeeds and yields a scenario with weightsLocked = true whose audit *)
(* is the audit of s followed by exactly two events, weights_unlocked then *)
(* weights_locked, and whose criteria and scores are those of s.           *)
C33_UnlockLockRoundTrip ==
    scenario.weightsLocked =>
        \A actor \in Actors, reason \in Reasons :
            LET r == Relocked(scenario, actor, reason, clock)
            IN  /\ r.result = "ok"
                /\ r.scenario.weightsLocked
                /\ Len(r.scenario.audit) = Len(scenario.audit) + 2
                /\ SubSeq(r.scenario.audit, 1, Len(scenario.audit)) = scenario.audit
                /\ r.scenario.audit[Len(scenario.audit) + 1].type = "weights_unlocked"
                /\ r.scenario.audit[Len(scenario.audit) + 2].type = "weights_locked"
                /\ r.scenario.criteria = scenario.criteria
                /\ r.scenario.scores = scenario.scores

(* a locked scenario was unlocked and locked again by the same actor *)
C33_Witness ==
    /\ call.op = "lock_weights"
    /\ call.result = "ok"
    /\ Len(scenario.audit) >= 3
    /\ LET s == [scenario EXCEPT !.audit = SubSeq(scenario.audit, 1, Len(scenario.audit) - 2)]
       IN  /\ s.weightsLocked
           /\ \E reason \in Reasons :
                  Relocked(s, call.actor, reason, clock - 2) = Ok(scenario)

LockEvents(s) ==
    SelectSeq(s.audit, LAMBDA e : e.type \in {"weights_locked", "weights_unlocked"})

(* C34: for a scenario created unlocked with an empty audit and changed by *)
(* any sequence of service calls, the weights_locked and weights_unlocked  *)
(* events of the audit strictly alternate starting with weights_locked,    *)
(* weightsLocked is true exactly when the last of them is weights_locked,  *)
(* and no weight_changed event lies between a weights_locked event and the *)
(* next weights_unlocked event.                                            *)
C34_LockEventsAlternate ==
    LET locks == LockEvents(scenario)
    IN  /\ \A i \in 1..Len(locks) :
               locks[i].type = IF i % 2 = 1 THEN "weights_locked" ELSE "weights_unlocked"
        /\ scenario.weightsLocked
               <=> (locks # <<>> /\ locks[Len(locks)].type = "weights_locked")
        /\ \A i, j \in 1..Len(scenario.audit) :
               (/\ i < j
                /\ scenario.audit[i].type = "weights_locked"
                /\ scenario.audit[j].type = "weight_changed")
               => \E k \in (i + 1)..(j - 1) : scenario.audit[k].type = "weights_unlocked"

(* locked, unlocked, and then a weight was changed; and a change refused *)
(* while the weights were locked                                         *)
C34_Witness ==
    /\ Len(scenario.audit) = 3
    /\ scenario.audit[1].type = "weights_locked"
    /\ scenario.audit[2].type = "weights_unlocked"
    /\ scenario.audit[3].type = "weight_changed"
    /\ ~scenario.weightsLocked

C34_WitnessRefused ==
    /\ call.op = "set_weight"
    /\ call.result = "LockedError"
    /\ scenario.audit[Len(scenario.audit)].type = "weights_locked"
    /\ \E i \in 1..Len(scenario.audit) : scenario.audit[i].type = "weight_changed"

ScoreEvents(s, option_id, criterion_id) ==
    SelectSeq(s.audit, LAMBDA e :
        /\ e.type = "score_changed"
        /\ e.details.optionId = option_id
        /\ e.details.criterionId = criterion_id)

(* C35: in every scenario reachable from a newly created one through the *)
(* scoring and weights services, a Score exists for a pair (optionId,    *)
(* criterionId) only if the audit holds a score_changed event for that   *)
(* pair, and the Score's raw is the newValue of the last such event.     *)
C35_AuditAccountsForScores ==
    \A i \in 1..Len(scenario.scores) :
        LET events == ScoreEvents(scenario, scenario.scores[i].optionId,
                                  scenario.scores[i].criterionId)
        IN  /\ events # <<>>
            /\ scenario.scores[i].raw = events[Len(events)].details.newValue

(* C35 for the scores that set_score made: every score with a score_changed *)
(* event for its pair has the raw value of the last such event              *)
C35_LoggedScoresReplay ==
    \A i \in 1..Len(scenario.scores) :
        LET events == ScoreEvents(scenario, scenario.scores[i].optionId,
                                  scenario.scores[i].criterionId)
        IN  events # <<>> => scenario.scores[i].raw = events[Len(events)].details.newValue

WeightEvents(s, criterion_id) ==
    SelectSeq(s.audit, LAMBDA e :
        e.type = "weight_changed" /\ e.details.criterionId = criterion_id)

(* the criteria the scenario was created with: the services keep the ids, *)
(* names and order of the criteria                                        *)
CreatedCriteria(s) ==
    CHOOSE criteria \in CriteriaChoices :
        /\ Len(criteria) = Len(s.criteria)
        /\ \A i \in 1..Len(criteria) :
               criteria[i].id = s.criteria[i].id /\ criteria[i].name = s.criteria[i].name

WeightChain(s, i) ==
    LET events == WeightEvents(s, s.criteria[i].id)
        created == CreatedCriteria(s)[i].weight
    IN  /\ \A k \in 1..Len(events) :
               events[k].details.oldWeight
                   = IF k = 1 THEN created ELSE events[k - 1].details.newWeight
        /\ s.criteria[i].weight
               = IF events = <<>> THEN created ELSE events[Len(events)].details.newWeight

(* C36: in every scenario reachable from a newly created one through the  *)
(* services, for each criterion the oldWeight of each weight_changed event *)
(* is the newWeight of the preceding weight_changed event for that         *)
(* criterion (its weight at creation when there is none), and the          *)
(* criterion's current weight is the newWeight of its last weight_changed  *)
(* event (its weight at creation when there is none).                      *)
C36_WeightChain == \A i \in 1..Len(scenario.criteria) : WeightChain(scenario, i)

(* C36 where no two criteria of the scenario share an id *)
C36_WithUniqueCriterionIds ==
    (\A i, j \in 1..Len(scenario.criteria) :
        scenario.criteria[i].id = scenario.criteria[j].id => i = j) => C36_WeightChain

(* two changes of one criterion's weight are chained *)
C36_ChainReached ==
    /\ Len(WeightEvents(scenario, "c2")) >= 2
    /\ WeightEvents(scenario, "c2")[1].details.newWeight
           # WeightEvents(scenario, "c2")[1].details.oldWeight
    /\ C36_WeightChain

(* C37: backups are isolated per scenario id: list_backups(id) returns, *)
(* and cleanup_old_backups(id, N) deletes, only backup files made by     *)
(* saves of exactly that id, also when another stored scenario's id      *)
(* begins with '<id>_' (ids 'a' and 'a_b'); pruning one scenario's       *)
(* backups never removes a backup of another scenario.                   *)
C37_BackupsIsolated ==
    \A scenario_id \in BackupIds :
        \A backups \in list_backups(files, scenario_id) :
            /\ PathsOf(backups) \subseteq BackupsOf(files, scenario_id)
            /\ \A keep_count \in InKeepCounts, other \in BackupIds \ {scenario_id} :
                   BackupsOf(cleanup_old_backups(files, backups, keep_count), other)
                       = BackupsOf(files, other)

(* C37 for the id 'a_b', which is no prefix of the other id *)
C37_IsolatedForLongerId ==
    \A backups \in list_backups(files, <<"a", "_", "b">>) :
        /\ PathsOf(backups) \subseteq BackupsOf(files, <<"a", "_", "b">>)
        /\ \A keep_count \in InKeepCounts :
               BackupsOf(cleanup_old_backups(files, backups, keep_count), <<"a">>)
                   = BackupsOf(files, <<"a">>)

(* both ids have a backup *)
C37_BothBackedUp ==
    /\ BackupsOf(files, <<"a">>) # {}
    /\ BackupsOf(files, <<"a", "_", "b">>) # {}
    /\ Idle

(* C38: in every scenario reachable from a newly created one by set_score, *)
(* set_rationale, set_weight, lock_weights and unlock_weights calls, every  *)
(* option's total satisfies 0 <= total <= maxPossible, the sum of           *)
(* weight * 5 over all criteria, so every normalized score lies between 0   *)
(* and 100.                                                                 *)
C38_TotalsWithinRange ==
    \A option_id \in OptionIds(scenario) :
        LET entry == totals(scenario)[option_id]
        IN  /\ 0 <= entry.total
            /\ entry.total <= MaxPossible(scenario)
            /\ 0 <= entry.normalized.num
            /\ entry.normalized.num <= 100 * entry.normalized.den

(* an option reaches the highest possible total: every criterion that has *)
(* a weight is scored 5                                                   *)
C38_Witness ==
    /\ call.result = "ok"
    /\ totals(scenario)["opt1"].total = MaxPossible(scenario)
    /\ MaxPossible(scenario) > 0
    /\ totals(scenario)["opt1"].normalized = divide(100, 1)
    /\ totals(prev)["opt1"].total < MaxPossible(prev)

ScenarioFields ==
    {"id", "title", "createdAt", "modifiedAt", "weightsLocked", "criteria", "options",
     "scores", "settings", "audit"}

(* the fields in which two scenarios differ *)
ChangedFields(a, b) == {field \in ScenarioFields : a[field] # b[field]}

Relock(s) == [s EXCEPT !.weightsLocked = ~@]

(* the time the last call read, if it logged an event *)
CallTime == clock - (Len(scenario.audit) - Len(prev.audit))

C39_WitnessRationale ==
    /\ call.op = "set_rationale"
    /\ call.result = "ok"
    /\ prev.weightsLocked
    /\ ChangedFields(prev, scenario) = {"scores"}

OtherCharacter(text) == \E i \in 1..Len(text) : text[i] \notin IdChars

(* C40: path resolution maps an id to a file path only when every        *)
(* character of the id is one of A-Z a-z 0-9 _ -: an id with any other   *)
(* character, an id ending with a newline included, is rejected with     *)
(* ValidationError and is never used to build a path.                    *)
C40_OnlyIdCharactersMakePaths ==
    /\ \A path \in DOMAIN files : ~OtherCharacter(path.stem)
    /\ (call.op \in SaveOps \cup {"load", "exists", "delete"} /\ OtherCharacter(call.id)) =>
           /\ call.result = "ValidationError"
           /\ \A path \in call.accessed : ~OtherCharacter(path.stem)

(* C40 for the ids with another character that is not a final newline *)
C40_ExceptFinalNewline ==
    (/\ call.op \in SaveOps \cup {"load", "exists", "delete"}
     /\ OtherCharacter(call.id)
     /\ ~(/\ call.id[Len(call.id)] = "\n"
          /\ WellFormedId(SubSeq(call.id, 1, Len(call.id) - 1)))) =>
        call.result = "ValidationError" /\ call.accessed = {}

(* a file whose name holds the newline of the id *)
C40_NewlineInPath ==
    \E path \in DOMAIN files : path.stem = <<"a", "\n">> /\ path.suffix = ".json"

====
